---- MODULE Spec2Model ----
(***************************************************************************)
(* A model of the auto-header editor extension: the configuration, the     *)
(* memoized filesystem helper, the header resolver, the include-block      *)
(* editor and the command layer.                                           *)
(*                                                                         *)
(* Text is modelled character by character: a string is a sequence of      *)
(* one-character strings, a document is the sequence of its lines          *)
(* (getText().split('\n')), a path is the sequence of its segments.        *)
(***************************************************************************)
EXTENDS Integers, Sequences, FiniteSets, TLC

VARIABLES
  doc,        \* the open document: its lines, as document.getText().split('\n')
  cfg,        \* the AutoHeaderConfig that getConfiguration() returns
  active,     \* editor.document.uri.fsPath of the active editor
  disk,       \* the filesystem: the set of paths that exist (fs.existsSync)
  content,    \* the content of the files the extension wrote
  fsCache,    \* FileSystemService.fsCache: path -> memoized existence
  wsState,    \* context.workspaceState: source path -> cached counterpart
  last,       \* what the last operation was given and what it returned
  prev,       \* the operation before the last one, in brief
  nops,       \* the number of operations performed so far
  nenv,       \* the number of events of the environment so far
  settings,   \* vscode.workspace.getConfiguration('autoHeader'): the host's values
  now,        \* Date.now()
  configCache,          \* ConfigurationManager.configCache: <<>> for null, or <<object>>
  configLastUpdate,     \* ConfigurationManager.configLastUpdate
  extConfigCache,       \* AutoHeaderExtension.configCache: <<>> for null, or <<object>>
  extConfigLastUpdate,  \* AutoHeaderExtension.configLastUpdate
  fsStamp,    \* history kept for the filesystem specification: when each
              \* entry of fsCache was memoized
  pending     \* the command invocations suspended at a prompt: the number
              \* of the invocation -> what it has computed so far

vars ==
  << doc, cfg, active, disk, content, fsCache, wsState, last, prev, nops, nenv,
     settings, now, configCache, configLastUpdate, extConfigCache,
     extConfigLastUpdate, fsStamp, pending >>

\* The configuration caches and the clock.
cfgVars ==
  << settings, now, configCache, configLastUpdate, extConfigCache,
     extConfigLastUpdate >>

(***************************************************************************)
(* Bounds of the model.                                                    *)
(***************************************************************************)
MaxLines == 3      \* the longest enumerated document, in lines
MaxOps == 2        \* operations per behaviour of the text specification
MaxEnv == 1        \* events of the environment per behaviour

(***************************************************************************)
(* Strings.                                                                *)
(***************************************************************************)
Chars(s) == [i \in 1..Len(s) |-> SubSeq(s, i, i)]

\* The literals of the code, and the names the model's paths are made of.
LineCommentMark == Chars("//")
BlockCommentMark == Chars("/*")
StarMark == Chars("*")
IncludeWord == Chars("include")
HeadersWord == Chars("headers")
SystemIncludeText == Chars("#include <")
DotDot == Chars("..")
ProjName == Chars("proj")
SrcName == Chars("src")
AHName == Chars("a.h")
ACppName == Chars("a.cpp")
SrcAHText == Chars("src/a.h")

\* String.prototype.trim's white space, as far as a line can hold it.
IsWs(c) == c \in {" ", "\t", "\r"}

RECURSIVE SkipWs(_, _)
\* The first index >= i of s that holds no white space (Len(s)+1 if none).
SkipWs(s, i) ==
  IF i > Len(s) THEN Len(s) + 1
  ELSE IF IsWs(s[i]) THEN SkipWs(s, i + 1) ELSE i

RECURSIVE SkipWsBack(_, _)
SkipWsBack(s, i) ==
  IF i < 1 THEN 0
  ELSE IF IsWs(s[i]) THEN SkipWsBack(s, i - 1) ELSE i

Trim(s) == SubSeq(s, SkipWs(s, 1), SkipWsBack(s, Len(s)))

StartsWith(s, p) == Len(s) >= Len(p) /\ SubSeq(s, 1, Len(p)) = p

EndsWith(s, p) ==
  Len(s) >= Len(p) /\ SubSeq(s, Len(s) - Len(p) + 1, Len(s)) = p

\* String.prototype.includes.
Includes(s, p) ==
  \E i \in 0..(Len(s) - Len(p)) : SubSeq(s, i + 1, i + Len(p)) = p

\* String.prototype.toLowerCase over the letters the model's paths use.
LowerChar(c) ==
  CASE c = "H" -> "h"
    [] c = "C" -> "c"
    [] c = "P" -> "p"
    [] OTHER -> c

ToLowerCase(s) == [i \in 1..Len(s) |-> LowerChar(s[i])]

\* The collation rank of a character: localeCompare orders punctuation
\* before digits before letters.
CharRank(c) ==
  CASE c = " " -> 1
    [] c = "_" -> 2
    [] c = "-" -> 3
    [] c = "," -> 4
    [] c = "." -> 5
    [] c = "/" -> 6
    [] c = "#" -> 7
    [] c = "<" -> 8
    [] c = ">" -> 9
    [] c = "a" -> 20
    [] c = "b" -> 21
    [] c = "c" -> 22
    [] c = "h" -> 27
    [] c = "m" -> 32
    [] c = "p" -> 35
    [] c = "r" -> 37
    [] c = "s" -> 38
    [] c = "z" -> 45
    [] OTHER -> 50

RECURSIVE LocaleCompareFrom(_, _, _)
LocaleCompareFrom(a, b, i) ==
  IF i > Len(a) /\ i > Len(b) THEN 0
  ELSE IF i > Len(a) THEN -1
  ELSE IF i > Len(b) THEN 1
  ELSE IF CharRank(a[i]) < CharRank(b[i]) THEN -1
  ELSE IF CharRank(a[i]) > CharRank(b[i]) THEN 1
  ELSE LocaleCompareFrom(a, b, i + 1)

\* a.localeCompare(b): negative, zero or positive.
LocaleCompare(a, b) == LocaleCompareFrom(a, b, 1)

(***************************************************************************)
(* The configuration.                                                      *)
(***************************************************************************)
ExtC == Chars(".c")
ExtCpp == Chars(".cpp")
ExtH == Chars(".h")
ExtHpp == Chars(".hpp")

HeaderTemplate == Chars("#pragma once\n\n// Header file for ${filename}\n\n")

DefaultCacheDuration == 5000

\* The configuration with the settings the model does not vary.
DefaultConfig ==
  [ supportedExtensions |-> <<ExtC, ExtCpp>>,
    headerExtensions |-> <<ExtH, ExtHpp>>,
    insertEmptyLineAfter |-> TRUE,
    includeFormat |-> "quotes",
    headerTemplate |-> HeaderTemplate,
    askBeforeCreating |-> TRUE,
    sortIncludes |-> FALSE,
    cacheDuration |-> DefaultCacheDuration,
    groupIncludesByType |-> TRUE ]

\* The configuration caches before the first getConfiguration, the host
\* holding the defaults.
ConfigIdle ==
  /\ settings = DefaultConfig
  /\ now = 0
  /\ configCache = <<>>
  /\ configLastUpdate = 0
  /\ extConfigCache = <<>>
  /\ extConfigLastUpdate = 0
  /\ fsStamp = <<>>
  /\ pending = <<>>

(***************************************************************************)
(* The include-block editor.                                               *)
(***************************************************************************)
\* A variant that does not know the continuation lines of a block comment.
IsCommentOrBlankNoStar(line) ==
  LET t == Trim(line)
  IN  \/ StartsWith(t, LineCommentMark)
      \/ StartsWith(t, BlockCommentMark)
      \/ t = <<>>

\* The test of findInsertPosition for the lines it skips.
IsCommentOrBlank(line) ==
  LET t == Trim(line)
  IN  \/ StartsWith(t, LineCommentMark)
      \/ StartsWith(t, BlockCommentMark)
      \/ StartsWith(t, StarMark)
      \/ t = <<>>

RECURSIVE InsertScan(_, _)
\* The while loop of findInsertPosition; i is the zero-based line index.
InsertScan(lines, i) ==
  IF i < Len(lines) /\ IsCommentOrBlank(lines[i + 1])
  THEN InsertScan(lines, i + 1)
  ELSE i

findInsertPosition(lines) == InsertScan(lines, 0)

RECURSIVE DelimiterFrom(_, _)
\* The first index >= i of s holding > or " (Len(s)+1 if none): where the
\* greedy [^>"]* of the include pattern stops.
DelimiterFrom(s, i) ==
  IF i > Len(s) THEN Len(s) + 1
  ELSE IF s[i] \in {">", "\""} THEN i ELSE DelimiterFrom(s, i + 1)

\* includeRegex.exec(line): /^\s*#\s*include\s*[<"]([^>"]*)[>"]/
includeRegex(line) ==
  LET n == Len(line)
      h == SkipWs(line, 1)
      k == SkipWs(line, h + 1)
      o == SkipWs(line, k + 7)
      e == DelimiterFrom(line, o + 1)
      ok == /\ h <= n /\ line[h] = "#"
            /\ k + 6 <= n /\ SubSeq(line, k, k + 6) = IncludeWord
            /\ o <= n /\ line[o] \in {"<", "\""}
            /\ e <= n
  IN  [ matched |-> ok,
        path |-> IF ok THEN SubSeq(line, o + 1, e - 1) ELSE <<>> ]

\* The isSystemInclude field of a collected statement.
isSystemInclude(line) == Includes(line, SystemIncludeText)

IncludeStatement(lines, i) ==
  [ lineNumber |-> i,
    text |-> lines[i + 1],
    isSystemInclude |-> isSystemInclude(lines[i + 1]),
    includePath |-> includeRegex(lines[i + 1]).path ]

RECURSIVE CollectFrom(_, _, _, _)
\* The for loop of sortIncludeStatements from zero-based line i on; started
\* is includeBlockStart !== -1, acc the statements pushed so far.
CollectFrom(lines, i, started, acc) ==
  IF i >= Len(lines) THEN acc
  ELSE IF includeRegex(lines[i + 1]).matched
       THEN CollectFrom(lines, i + 1, TRUE,
                        Append(acc, IncludeStatement(lines, i)))
  ELSE IF started /\ Trim(lines[i + 1]) # <<>> THEN acc
  ELSE CollectFrom(lines, i + 1, started, acc)

CollectIncludes(lines) == CollectFrom(lines, 0, FALSE, <<>>)

\* The comparator performSort hands to Array.prototype.sort.
CompareIncludes(a, b, groupByType) ==
  IF groupByType /\ a.isSystemInclude /\ ~b.isSystemInclude THEN -1
  ELSE IF groupByType /\ ~a.isSystemInclude /\ b.isSystemInclude THEN 1
  ELSE LocaleCompare(a.includePath, b.includePath)

RECURSIVE InsertStable(_, _, _, _)
\* sorted with x put after the last element that does not compare above it.
InsertStable(sorted, x, groupByType, i) ==
  IF i = 0 \/ CompareIncludes(sorted[i], x, groupByType) <= 0
  THEN SubSeq(sorted, 1, i) \o <<x>> \o SubSeq(sorted, i + 1, Len(sorted))
  ELSE InsertStable(sorted, x, groupByType, i - 1)

RECURSIVE SortFrom(_, _, _, _)
SortFrom(stmts, i, groupByType, acc) ==
  IF i > Len(stmts) THEN acc
  ELSE SortFrom(stmts, i + 1, groupByType,
                InsertStable(acc, stmts[i], groupByType, Len(acc)))

\* Array.prototype.sort with the comparator: a stable sort.
SortIncludes(stmts, groupByType) == SortFrom(stmts, 1, groupByType, <<>>)

\* Whether position <<l1, c1>> is before or equal to <<l2, c2>>.
PosLeq(l1, c1, l2, c2) == l1 < l2 \/ (l1 = l2 /\ c1 <= c2)

\* new vscode.Range(start, end): the two positions are swapped when start is
\* not before or equal to end.
Range(l1, c1, l2, c2) ==
  IF PosLeq(l1, c1, l2, c2)
  THEN [sl |-> l1, sc |-> c1, el |-> l2, ec |-> c2]
  ELSE [sl |-> l2, sc |-> c2, el |-> l1, ec |-> c1]

\* The lines of prefix + text + suffix, text being newLines joined by '\n'.
Splice(prefix, newLines, suffix) ==
  LET n == Len(newLines)
  IN  IF n = 1 THEN <<prefix \o newLines[1] \o suffix>>
      ELSE <<prefix \o newLines[1]>> \o SubSeq(newLines, 2, n - 1)
           \o <<newLines[n] \o suffix>>

\* editBuilder.replace(range, text) applied to the document.
ReplaceRange(lines, r, newLines) ==
  LET prefix == SubSeq(lines[r.sl + 1], 1, r.sc)
      suffix == SubSeq(lines[r.el + 1], r.ec + 1, Len(lines[r.el + 1]))
  IN  SubSeq(lines, 1, r.sl) \o Splice(prefix, newLines, suffix)
      \o SubSeq(lines, r.el + 2, Len(lines))

\* performSort: the document after its edit.
performSort(lines, includeStatements, groupByType) ==
  LET sorted == SortIncludes(includeStatements, groupByType)
      startLine == sorted[1].lineNumber
      endLine == sorted[Len(sorted)].lineNumber
      range == Range(startLine, 0, endLine, Len(lines[endLine + 1]))
      sortedText == [i \in 1..Len(sorted) |-> sorted[i].text]
  IN  ReplaceRange(lines, range, sortedText)

\* A variant that also sorts a run of one include statement.
sortIncludeStatementsOfOne(lines, config, force) ==
  LET stmts == CollectIncludes(lines)
  IN  IF ~(force \/ config.sortIncludes)
      THEN [ret |-> FALSE, doc |-> lines, edits |-> 0]
      ELSE IF Len(stmts) < 1
      THEN [ret |-> FALSE, doc |-> lines, edits |-> 0]
      ELSE [ ret |-> TRUE,
             doc |-> performSort(lines, stmts, config.groupIncludesByType),
             edits |-> 1 ]

\* A variant that returns whether its edit changed the text.
sortIncludeStatementsReportingChange(lines, config, force) ==
  LET stmts == CollectIncludes(lines)
      after == performSort(lines, stmts, config.groupIncludesByType)
  IN  IF ~(force \/ config.sortIncludes)
      THEN [ret |-> FALSE, doc |-> lines, edits |-> 0]
      ELSE IF Len(stmts) <= 1
      THEN [ret |-> FALSE, doc |-> lines, edits |-> 0]
      ELSE [ret |-> after # lines, doc |-> after, edits |-> 1]

\* sortIncludeStatements(editor, force): what it returns, the document it
\* leaves and the number of edits it applied.
sortIncludeStatements(lines, config, force) ==
  LET stmts == CollectIncludes(lines)
  IN  IF ~(force \/ config.sortIncludes)
      THEN [ret |-> FALSE, doc |-> lines, edits |-> 0]
      ELSE IF Len(stmts) <= 1
      THEN [ret |-> FALSE, doc |-> lines, edits |-> 0]
      ELSE [ ret |-> TRUE,
             doc |-> performSort(lines, stmts, config.groupIncludesByType),
             edits |-> 1 ]

(***************************************************************************)
(* Paths: a path is the sequence of its segments, the root being <<>>.     *)
(***************************************************************************)
\* path.dirname
dirname(p) == IF Len(p) = 0 THEN p ELSE SubSeq(p, 1, Len(p) - 1)

\* path.join(dir, name), name being one segment.
join(dir, name) == Append(dir, name)

RECURSIVE LastDotFrom(_, _)
LastDotFrom(s, i) ==
  IF i < 1 THEN 0 ELSE IF s[i] = "." THEN i ELSE LastDotFrom(s, i - 1)

\* path.extname: from the last dot of the last segment on; empty when there
\* is no dot or the only dot starts the name.
extname(p) ==
  LET name == IF Len(p) = 0 THEN <<>> ELSE p[Len(p)]
      d == LastDotFrom(name, Len(name))
  IN  IF d <= 1 THEN <<>> ELSE SubSeq(name, d, Len(name))

\* path.basename(p, ext): the last segment without a trailing ext.
basename(p, ext) ==
  LET name == IF Len(p) = 0 THEN <<>> ELSE p[Len(p)]
  IN  IF ext # <<>> /\ name # ext /\ EndsWith(name, ext)
      THEN SubSeq(name, 1, Len(name) - Len(ext))
      ELSE name

RECURSIVE CommonPrefix(_, _, _)
CommonPrefix(a, b, k) ==
  IF k < Len(a) /\ k < Len(b) /\ a[k + 1] = b[k + 1]
  THEN CommonPrefix(a, b, k + 1)
  ELSE k

\* path.relative(from, to): the segments leading from from to to.
relative(from, to) ==
  LET k == CommonPrefix(from, to, 0)
  IN  [i \in 1..(Len(from) - k) |-> DotDot] \o SubSeq(to, k + 1, Len(to))

RECURSIVE JoinSlash(_)
\* The text of a relative path, its segments separated by '/'.
JoinSlash(segs) ==
  IF Len(segs) = 0 THEN <<>>
  ELSE IF Len(segs) = 1 THEN segs[1]
  ELSE segs[1] \o <<"/">> \o JoinSlash(Tail(segs))

(***************************************************************************)
(* The filesystem helper.                                                  *)
(***************************************************************************)
\* FileSystemService.fileExists: the answer and the cache it leaves.
fileExists(cache, d, p) ==
  IF p \in DOMAIN cache
  THEN [cache |-> cache, res |-> cache[p]]
  ELSE [cache |-> (p :> (p \in d)) @@ cache, res |-> p \in d]

\* FileSystemService.isCppSourceFile.
isCppSourceFile(p, config) ==
  /\ p # <<>>
  /\ \E i \in 1..Len(config.supportedExtensions) :
       config.supportedExtensions[i] = ToLowerCase(extname(p))

\* A variant that looks for the extension anywhere in the file name.
isCppHeaderFileAnywhere(p, config) ==
  /\ p # <<>>
  /\ \E i \in 1..Len(config.headerExtensions) :
       Includes(ToLowerCase(p[Len(p)]), config.headerExtensions[i])

\* FileSystemService.isCppHeaderFile.
isCppHeaderFile(p, config) ==
  /\ p # <<>>
  /\ \E i \in 1..Len(config.headerExtensions) :
       config.headerExtensions[i] = ToLowerCase(extname(p))

(***************************************************************************)
(* The header resolver.                                                    *)
(***************************************************************************)
NotFoundInDirectory(cache) ==
  [ cache |-> cache, foundHeader |-> FALSE,
    headerFilePath |-> <<>>, headerIncludePath |-> <<>> ]

RECURSIVE HeaderExtFrom(_, _, _, _, _, _, _)
\* The loop of findHeaderInDirectory over config.headerExtensions from i on.
HeaderExtFrom(cache, d, directory, base, root, exts, i) ==
  IF i > Len(exts) THEN NotFoundInDirectory(cache)
  ELSE LET headerFilePath == join(directory, base \o exts[i])
           e == fileExists(cache, d, headerFilePath)
       IN  IF e.res
           THEN [ cache |-> e.cache, foundHeader |-> TRUE,
                  headerFilePath |-> headerFilePath,
                  headerIncludePath |->
                    JoinSlash(relative(root, headerFilePath)) ]
           ELSE HeaderExtFrom(e.cache, d, directory, base, root, exts, i + 1)

findHeaderInDirectory(cache, d, directory, base, root, exts) ==
  LET e == fileExists(cache, d, directory)
  IN  IF ~e.res THEN NotFoundInDirectory(e.cache)
      ELSE HeaderExtFrom(e.cache, d, directory, base, root, exts, 1)

\* A variant that looks into the parent's include directory first.
StrategyDirsIncludeFirst(sourceDir) ==
  << join(dirname(sourceDir), IncludeWord),
     sourceDir,
     join(sourceDir, IncludeWord),
     join(dirname(sourceDir), IncludeWord),
     join(dirname(sourceDir), HeadersWord) >>

\* The directories of the five strategies of findHeaderFile, in order.
StrategyDirs(sourceDir) ==
  << sourceDir,
     join(dirname(sourceDir), IncludeWord),
     join(sourceDir, IncludeWord),
     join(dirname(sourceDir), IncludeWord),
     join(dirname(sourceDir), HeadersWord) >>

\* A variant that proposes the last configured header extension.
DefaultHeaderPathLastExt(sourceDir, base, config) ==
  join(sourceDir,
       base \o config.headerExtensions[Len(config.headerExtensions)])

\* The path findHeaderFile proposes when no strategy finds a header.
DefaultHeaderPath(sourceDir, base, config) ==
  join(sourceDir, base \o config.headerExtensions[1])

DefaultIncludePath(sourceDir, root, base, config) ==
  JoinSlash(join(relative(root, sourceDir), base \o config.headerExtensions[1]))

RECURSIVE StrategyFrom(_, _, _, _, _, _, _)
\* The loop of findHeaderFile over its strategies from i on.
StrategyFrom(cache, d, file, root, base, config, i) ==
  LET sourceDir == dirname(file)
      dirs == StrategyDirs(sourceDir)
  IN  IF i > Len(dirs)
      THEN [ cache |-> cache, foundHeader |-> FALSE,
             headerFilePath |-> DefaultHeaderPath(sourceDir, base, config),
             headerIncludePath |->
               DefaultIncludePath(sourceDir, root, base, config) ]
      ELSE LET r == findHeaderInDirectory(cache, d, dirs[i], base, root,
                                          config.headerExtensions)
           IN  IF r.foundHeader THEN r
               ELSE StrategyFrom(r.cache, d, file, root, base, config, i + 1)

findHeaderFile(cache, d, file, root, base, config) ==
  StrategyFrom(cache, d, file, root, base, config, 1)

\* generateHeaderIncludePath: findHeaderFile for the file's own base name.
generateHeaderIncludePath(cache, d, file, root, config) ==
  LET fileExtension == ToLowerCase(extname(file))
      baseNameWithoutExt == basename(file, fileExtension)
      r == findHeaderFile(cache, d, file, root, baseNameWithoutExt, config)
  IN  [ cache |-> r.cache, foundHeader |-> r.foundHeader,
        headerFilePath |-> r.headerFilePath,
        headerIncludePath |-> r.headerIncludePath,
        baseNameWithoutExt |-> baseNameWithoutExt ]

(***************************************************************************)
(* The filesystem helper's writes.  io is what the filesystem does to the  *)
(* call: "ok", "mkdirFails" (mkdirSync throws) or "writeFails"             *)
(* (writeFileSync throws).                                                 *)
(***************************************************************************)
AncestorsOf(p) == {SubSeq(p, 1, k) : k \in 0..Len(p)}

\* A variant that forgets what it memoized when mkdirSync throws.
ensureDirectoryExistsForgetting(cache, d, dirPath, io) ==
  LET e == fileExists(cache, d, dirPath)
  IN  IF e.res THEN [cache |-> e.cache, disk |-> d, ok |-> TRUE]
      ELSE IF io # "mkdirFails"
      THEN [cache |-> <<>>, disk |-> d \cup AncestorsOf(dirPath), ok |-> TRUE]
      ELSE [cache |-> <<>>, disk |-> d, ok |-> FALSE]

\* FileSystemService.ensureDirectoryExists.
ensureDirectoryExists(cache, d, dirPath, io) ==
  LET e == fileExists(cache, d, dirPath)
  IN  IF e.res THEN [cache |-> e.cache, disk |-> d, ok |-> TRUE]
      ELSE IF io # "mkdirFails"
      THEN [cache |-> <<>>, disk |-> d \cup AncestorsOf(dirPath), ok |-> TRUE]
      ELSE [cache |-> e.cache, disk |-> d, ok |-> FALSE]

\* A variant that forgets only the written path.
writeFileForgettingOne(cache, d, files, path, text, io) ==
  LET en == ensureDirectoryExists(cache, d, dirname(path), io)
  IN  IF ~en.ok
      THEN [cache |-> en.cache, disk |-> en.disk, files |-> files, ok |-> FALSE]
      ELSE IF io = "writeFails" \/ dirname(path) \notin en.disk
      THEN [cache |-> en.cache, disk |-> en.disk, files |-> files, ok |-> FALSE]
      ELSE IF io = "writePartial"
      THEN [ cache |-> en.cache, disk |-> en.disk \cup {path},
             files |-> (path :> <<>>) @@ files, ok |-> FALSE ]
      ELSE [ cache |-> [q \in DOMAIN en.cache \ {path} |-> en.cache[q]],
             disk |-> en.disk \cup {path},
             files |-> (path :> text) @@ files, ok |-> TRUE ]

\* A variant that keeps the cache after a write.
writeFileKeepingCache(cache, d, files, path, text, io) ==
  LET en == ensureDirectoryExists(cache, d, dirname(path), io)
  IN  IF ~en.ok
      THEN [cache |-> en.cache, disk |-> en.disk, files |-> files, ok |-> FALSE]
      ELSE IF io = "writeFails" \/ dirname(path) \notin en.disk
      THEN [cache |-> en.cache, disk |-> en.disk, files |-> files, ok |-> FALSE]
      ELSE IF io = "writePartial"
      THEN [ cache |-> en.cache, disk |-> en.disk \cup {path},
             files |-> (path :> <<>>) @@ files, ok |-> FALSE ]
      ELSE [ cache |-> en.cache, disk |-> en.disk \cup {path},
             files |-> (path :> text) @@ files, ok |-> TRUE ]

\* FileSystemService.writeFile: writeFileSync throws when the filesystem
\* refuses the write or the directory is not there ("writeFails", nothing
\* is written), or after it has opened the file and before the text is
\* complete ("writePartial", a truncated file stays behind).
writeFile(cache, d, files, path, text, io) ==
  LET en == ensureDirectoryExists(cache, d, dirname(path), io)
  IN  IF ~en.ok
      THEN [cache |-> en.cache, disk |-> en.disk, files |-> files, ok |-> FALSE]
      ELSE IF io = "writeFails" \/ dirname(path) \notin en.disk
      THEN [cache |-> en.cache, disk |-> en.disk, files |-> files, ok |-> FALSE]
      ELSE IF io = "writePartial"
      THEN [ cache |-> en.cache, disk |-> en.disk \cup {path},
             files |-> (path :> <<>>) @@ files, ok |-> FALSE ]
      ELSE [ cache |-> <<>>, disk |-> en.disk \cup {path},
             files |-> (path :> text) @@ files, ok |-> TRUE ]

(***************************************************************************)
(* The resolver's counterpart search.                                      *)
(***************************************************************************)
RECURSIVE SourceExtFrom(_, _, _, _, _, _)
\* A loop of findMatchingSourceFile over supportedExtensions from i on.
SourceExtFrom(cache, d, dir, base, exts, i) ==
  IF i > Len(exts) THEN [cache |-> cache, found |-> FALSE, path |-> <<>>]
  ELSE LET possibleSourceFile == join(dir, base \o exts[i])
           e == fileExists(cache, d, possibleSourceFile)
       IN  IF e.res
           THEN [cache |-> e.cache, found |-> TRUE, path |-> possibleSourceFile]
           ELSE SourceExtFrom(e.cache, d, dir, base, exts, i + 1)

\* The loop over supportedExtensions in a directory that must exist.
SourceInExistingDir(cache, d, dir, base, exts) ==
  LET e == fileExists(cache, d, dir)
  IN  IF e.res THEN SourceExtFrom(e.cache, d, dir, base, exts, 1)
      ELSE [cache |-> e.cache, found |-> FALSE, path |-> <<>>]

\* A variant whose pattern never matches.
IncludeSegmentNever(fileDir) == 0

\* Where /[\/\\]include[\/\\]/ first matches fileDir: the first segment
\* "include" that another segment follows (0 if none).
IncludeSegment(fileDir) ==
  LET m == {i \in 1..(Len(fileDir) - 1) : fileDir[i] = IncludeWord}
  IN  IF m = {} THEN 0 ELSE CHOOSE i \in m : \A j \in m : i <= j

\* HeaderFinderService.findMatchingSourceFile.
findMatchingSourceFile(cache, d, fileDir, base, exts) ==
  LET s1 == SourceExtFrom(cache, d, fileDir, base, exts, 1)
      k == IncludeSegment(fileDir)
      s2 == IF k = 0 THEN [cache |-> s1.cache, found |-> FALSE, path |-> <<>>]
            ELSE SourceInExistingDir(s1.cache, d,
                                     [fileDir EXCEPT ![k] = SrcName], base, exts)
      s3 == SourceInExistingDir(s2.cache, d, join(dirname(fileDir), SrcName),
                                base, exts)
  IN  IF s1.found THEN s1 ELSE IF s2.found THEN s2 ELSE s3

ListIncludes(list, x) == \E i \in 1..Len(list) : list[i] = x

\* HeaderFinderService.findCorrespondingFile: the counterpart (<<>> for
\* undefined), the existence cache and the workspace state it leaves.
findCorrespondingFile(cache, d, ws, file, root, config) ==
  LET fileExtension == ToLowerCase(extname(file))
      baseNameWithoutExt == basename(file, fileExtension)
      fileDir == dirname(file)
      cached == IF file \in DOMAIN ws THEN fileExists(cache, d, ws[file])
                ELSE [cache |-> cache, res |-> FALSE]
      src == findMatchingSourceFile(cached.cache, d, fileDir,
                                    baseNameWithoutExt,
                                    config.supportedExtensions)
      hdr == findHeaderFile(cached.cache, d, file, root, baseNameWithoutExt,
                            config)
  IN  IF cached.res
      THEN [cache |-> cached.cache, ws |-> ws, path |-> ws[file]]
      ELSE IF ListIncludes(config.headerExtensions, fileExtension)
      THEN [ cache |-> src.cache,
             ws |-> IF src.found THEN (file :> src.path) @@ ws ELSE ws,
             path |-> IF src.found THEN src.path ELSE <<>> ]
      ELSE IF ListIncludes(config.supportedExtensions, fileExtension)
      THEN [ cache |-> hdr.cache,
             ws |-> IF hdr.foundHeader
                    THEN (file :> hdr.headerFilePath) @@ ws ELSE ws,
             path |-> IF hdr.foundHeader THEN hdr.headerFilePath ELSE <<>> ]
      ELSE [cache |-> cached.cache, ws |-> ws, path |-> <<>>]

(***************************************************************************)
(* The command layer.                                                      *)
(***************************************************************************)
\* A variant with another placeholder.
PlaceholderTextName == Chars("${name}")

PlaceholderText == Chars("${filename}")

RECURSIVE ReplaceAll(_, _, _)
\* s.replace(/\${filename}/g, rep)
ReplaceAll(s, pat, rep) ==
  IF Len(s) < Len(pat) THEN s
  ELSE IF SubSeq(s, 1, Len(pat)) = pat
  THEN rep \o ReplaceAll(SubSeq(s, Len(pat) + 1, Len(s)), pat, rep)
  ELSE <<s[1]>> \o ReplaceAll(Tail(s), pat, rep)

\* vscode.workspace.getWorkspaceFolder: the folder a file lies in, if any.
InWorkspace(file, root) ==
  Len(file) > Len(root) /\ SubSeq(file, 1, Len(root)) = root

\* The include statement of addHeaderInclude.
IncludeStatementText(includePath, config) ==
  IF config.includeFormat = "quotes"
  THEN Chars("#include \"") \o includePath \o <<"\"">>
  ELSE SystemIncludeText \o includePath \o <<">">>

\* document.getText().includes(statement), the statement holding no newline.
TextIncludes(lines, statement) ==
  \E i \in 1..Len(lines) : Includes(lines[i], statement)

\* editBuilder.insert(new Position(line, 0), statement + '\n' or '\n\n'): a
\* position after the last line is moved to the end of the last line.
InsertInclude(lines, line, statement, emptyLineAfter) ==
  LET n == Len(lines)
      blank == IF emptyLineAfter THEN <<<<>>>> ELSE <<>>
  IN  IF line < n
      THEN SubSeq(lines, 1, line) \o <<statement>> \o blank
           \o SubSeq(lines, line + 1, n)
      ELSE SubSeq(lines, 1, n - 1) \o <<lines[n] \o statement>> \o blank
           \o <<<<>>>>

\* What a command leaves: the document, the filesystem, the caches, and what
\* it reported and did.
Outcome(lines, cache, d, files, ws, msg) ==
  [ doc |-> lines, cache |-> cache, disk |-> d, files |-> files, ws |-> ws,
    msg |-> msg, edits |-> 0, found |-> FALSE, stmt |-> <<>>,
    created |-> <<>>, target |-> <<>>, pos |-> 0 ]

\* A variant that writes the header before it asks.
createHeaderFileWritingFirst(cache, d, files, headerFilePath, base, config, choice, io) ==
  LET headerContent == ReplaceAll(config.headerTemplate, PlaceholderText, base)
      w == writeFile(cache, d, files, headerFilePath, headerContent, io)
  IN  IF config.askBeforeCreating /\ choice # "Create"
      THEN [ cache |-> w.cache, disk |-> w.disk, files |-> w.files,
             ok |-> FALSE, msg |-> "declined" ]
      ELSE [ cache |-> w.cache, disk |-> w.disk, files |-> w.files,
             ok |-> w.ok, msg |-> IF w.ok THEN "created" ELSE "createFailed" ]

\* A variant that reports the header as created whatever writeFile returned.
createHeaderFileAlwaysOk(cache, d, files, headerFilePath, base, config, choice, io) ==
  LET headerContent == ReplaceAll(config.headerTemplate, PlaceholderText, base)
      w == writeFile(cache, d, files, headerFilePath, headerContent, io)
  IN  IF config.askBeforeCreating /\ choice # "Create"
      THEN [ cache |-> cache, disk |-> d, files |-> files, ok |-> FALSE,
             msg |-> "declined" ]
      ELSE [ cache |-> w.cache, disk |-> w.disk, files |-> w.files,
             ok |-> TRUE, msg |-> IF w.ok THEN "created" ELSE "createFailed" ]

\* HeaderCommands.createHeaderFile: ok, and the filesystem it leaves.
createHeaderFile(cache, d, files, headerFilePath, base, config, choice, io) ==
  LET headerContent == ReplaceAll(config.headerTemplate, PlaceholderText, base)
      w == writeFile(cache, d, files, headerFilePath, headerContent, io)
  IN  IF config.askBeforeCreating /\ choice # "Create"
      THEN [ cache |-> cache, disk |-> d, files |-> files, ok |-> FALSE,
             msg |-> "declined" ]
      ELSE [ cache |-> w.cache, disk |-> w.disk, files |-> w.files,
             ok |-> w.ok, msg |-> IF w.ok THEN "created" ELSE "createFailed" ]

\* The end of addHeaderInclude, from the include statement on.
InsertStatement(o, includePath, config) ==
  LET includeStatement == IncludeStatementText(includePath, config)
      insertLineIndex == findInsertPosition(o.doc)
      inserted == InsertInclude(o.doc, insertLineIndex, includeStatement,
                                config.insertEmptyLineAfter)
      sorted == sortIncludeStatements(inserted, config, FALSE)
  IN  IF TextIncludes(o.doc, includeStatement)
      THEN [o EXCEPT !.msg = "already", !.stmt = includeStatement]
      ELSE [o EXCEPT !.msg = "added", !.stmt = includeStatement,
                     !.doc = sorted.doc, !.edits = 1 + sorted.edits,
                     !.pos = insertLineIndex]

\* HeaderCommands.addHeaderInclude(editor, createIfNotExist).
addHeaderInclude(lines, cache, d, files, ws, file, root, config, createIfNotExist, choice, io) ==
  LET g == generateHeaderIncludePath(cache, d, file, root, config)
      newHeaderPath ==
        join(dirname(file), g.baseNameWithoutExt \o config.headerExtensions[1])
      relativeHeaderPath == JoinSlash(relative(root, newHeaderPath))
      c == createHeaderFile(g.cache, d, files, newHeaderPath,
                            g.baseNameWithoutExt, config, choice, io)
  IN  IF ~isCppSourceFile(file, config)
      THEN Outcome(lines, cache, d, files, ws, "notSource")
      ELSE IF ~InWorkspace(file, root)
      THEN Outcome(lines, cache, d, files, ws, "noWorkspace")
      ELSE IF g.foundHeader
      THEN InsertStatement(
             [Outcome(lines, g.cache, d, files, ws, "found")
                EXCEPT !.found = TRUE],
             g.headerIncludePath, config)
      ELSE IF ~createIfNotExist
      THEN Outcome(lines, g.cache, d, files, ws, "notFound")
      ELSE IF ~c.ok
      THEN Outcome(lines, c.cache, c.disk, c.files, ws, c.msg)
      ELSE InsertStatement(
             [Outcome(lines, c.cache, c.disk, c.files, ws, "created")
                EXCEPT !.created = newHeaderPath],
             relativeHeaderPath, config)

\* HeaderCommands.switchHeaderSource.
switchHeaderSource(lines, cache, d, files, ws, file, root, config, choice, io) ==
  LET fileExtension == ToLowerCase(extname(file))
      baseNameWithoutExt == basename(file, fileExtension)
      f == findCorrespondingFile(cache, d, ws, file, root, config)
      isHeader == isCppHeaderFile(file, config)
      newFileExt == IF isHeader THEN config.supportedExtensions[1]
                    ELSE config.headerExtensions[1]
      newFilePath == join(dirname(file), baseNameWithoutExt \o newFileExt)
      relativePath ==
        JoinSlash(relative(root,
          join(dirname(file), baseNameWithoutExt \o config.headerExtensions[1])))
      text == IF ~isHeader
              THEN ReplaceAll(config.headerTemplate, PlaceholderText,
                              baseNameWithoutExt)
              ELSE Chars("#include \"") \o relativePath \o Chars("\"\n\n")
      w == writeFile(f.cache, d, files, newFilePath, text, io)
  IN  IF ~isHeader /\ ~isCppSourceFile(file, config)
      THEN Outcome(lines, cache, d, files, ws, "neither")
      ELSE IF ~InWorkspace(file, root)
      THEN Outcome(lines, cache, d, files, ws, "noWorkspace")
      ELSE IF f.path # <<>>
      THEN [Outcome(lines, f.cache, d, files, f.ws, "opened")
              EXCEPT !.found = TRUE, !.target = f.path]
      ELSE IF choice # "Create"
      THEN Outcome(lines, f.cache, d, files, f.ws, "declined")
      ELSE IF ~w.ok
      THEN Outcome(lines, w.cache, w.disk, w.files, f.ws, "createFailed")
      ELSE [Outcome(lines, w.cache, w.disk, w.files, f.ws, "created")
              EXCEPT !.created = newFilePath, !.target = newFilePath]

(***************************************************************************)
(* What an operation leaves in last, and prev's brief of it.               *)
(***************************************************************************)
Idle ==
  [ op |-> "none", file |-> <<>>, force |-> FALSE, ret |-> FALSE, pos |-> 0,
    before |-> <<>>, edits |-> 0, found |-> FALSE, path |-> <<>>,
    inc |-> <<>>, agreed |-> TRUE, msg |-> "none", stmt |-> <<>>,
    created |-> <<>>, target |-> <<>>,
    obj |-> <<>>, hadCache |-> <<>>, since |-> 0,
    io |-> "none", diskWas |-> {}, filesWas |-> <<>>, wsWas |-> <<>> ]

Brief(l) == [op |-> l.op, file |-> l.file, msg |-> l.msg, created |-> l.created]

Seqs(S, n) == UNION {[1..k -> S] : k \in 1..n}

(***************************************************************************)
(* The text specification: the include-block editor on enumerated          *)
(* documents.                                                              *)
(***************************************************************************)
IncludeLines ==
  { Chars("#include <a>"), Chars("#include <b>"), Chars("#include \"a\""),
    Chars("#include<b>"), <<>>, Chars("x") }

CommentLines ==
  { Chars("//c"), Chars(" * c"), BlockCommentMark, Chars("*/"), <<>>,
    Chars("x"), Chars("#include <a>") }

\* The documents of the specification's two examples.
LicenseDoc ==
  << Chars("// license"), Chars(" * continued"), <<>>, Chars("int main(){}") >>

SortExampleDoc ==
  << Chars("#include <b.h>"), Chars("#include \"a.h\""), Chars("#include <a.h>") >>

TextDocs ==
  Seqs(IncludeLines, MaxLines) \cup Seqs(CommentLines, MaxLines)
    \cup {LicenseDoc, SortExampleDoc}

TextConfigs ==
  { [DefaultConfig EXCEPT !.sortIncludes = s, !.groupIncludesByType = g] :
      s \in BOOLEAN, g \in BOOLEAN }

InitText ==
  /\ doc \in TextDocs
  /\ cfg \in TextConfigs
  /\ active = <<>>
  /\ disk = {}
  /\ content = <<>>
  /\ fsCache = <<>>
  /\ wsState = <<>>
  /\ last = Idle
  /\ prev = Brief(Idle)
  /\ nops = 0
  /\ nenv = 0
  /\ ConfigIdle

\* IncludeSorterService.sortIncludeStatements(editor, force).
SortIncludeStatements(force) ==
  /\ nops < MaxOps
  /\ LET r == sortIncludeStatements(doc, cfg, force)
     IN  /\ doc' = r.doc
         /\ last' = [Idle EXCEPT !.op = "sort", !.force = force,
                                 !.ret = r.ret, !.before = doc,
                                 !.edits = r.edits]
  /\ prev' = Brief(last)
  /\ nops' = nops + 1
  /\ UNCHANGED <<cfg, active, disk, content, fsCache, wsState, nenv>>
  /\ UNCHANGED <<cfgVars, fsStamp, pending>>

\* IncludeSorterService.findInsertPosition(editor.document).
FindInsertPosition ==
  /\ nops < MaxOps
  /\ last' = [Idle EXCEPT !.op = "findInsert", !.before = doc,
                          !.pos = findInsertPosition(doc)]
  /\ prev' = Brief(last)
  /\ nops' = nops + 1
  /\ UNCHANGED <<doc, cfg, active, disk, content, fsCache, wsState, nenv>>
  /\ UNCHANGED <<cfgVars, fsStamp, pending>>

NextText ==
  \/ \E force \in BOOLEAN : SortIncludeStatements(force)
  \/ FindInsertPosition

SpecText == InitText /\ [][NextText]_vars

(***************************************************************************)
(* The claims about the include-block editor (SpecText).                   *)
(***************************************************************************)
IsIncludeLine(line) == includeRegex(line).matched

IsBlankLine(line) == Trim(line) = <<>>

\* The one-based indices of the lines of the first include run: the first
\* line matching the include pattern and every later matching line that only
\* matching or blank lines separate from it.
RunIndices(lines) ==
  LET m == {i \in 1..Len(lines) : IsIncludeLine(lines[i])}
  IN  { i \in m : \A j \in 1..i :
          (\E f \in m : f <= j) => (IsIncludeLine(lines[j]) \/ IsBlankLine(lines[j])) }

MinOf(S) == CHOOSE x \in S : \A y \in S : x <= y

MaxOf(S) == CHOOSE x \in S : \A y \in S : x >= y

RECURSIVE PickLines(_, _, _)
\* The lines at the indices S, in document order, from index i on.
PickLines(lines, S, i) ==
  IF i > Len(lines) THEN <<>>
  ELSE (IF i \in S THEN <<lines[i]>> ELSE <<>>) \o PickLines(lines, S, i + 1)

RunTexts(lines) == PickLines(lines, RunIndices(lines), 1)

Count(seq, x) == Cardinality({i \in 1..Len(seq) : seq[i] = x})

SameBag(a, b) ==
  /\ Len(a) = Len(b)
  /\ \A i \in 1..Len(a) : Count(a, a[i]) = Count(b, a[i])

\* Whether the path of an include line is opened by <.
IsAngle(line) ==
  LET d == {i \in 1..Len(line) : line[i] \in {"<", "\""}}
  IN  d # {} /\ line[MinOf(d)] = "<"

PathToken(line) == includeRegex(line).path

\* Whether the include lines run are in the order the sort is to produce.
InSortOrder(run, groupByType) ==
  \A i \in 1..Len(run) : \A j \in (i + 1)..Len(run) :
    IF groupByType /\ IsAngle(run[i]) # IsAngle(run[j])
    THEN IsAngle(run[i])
    ELSE LocaleCompare(PathToken(run[i]), PathToken(run[j])) <= 0

\* C3: after a forced sort of a document whose first include run has two or
\* more statements, the run of the resulting document consists of exactly the
\* original statements, every angle-bracket include before every quoted one
\* and each group ascending by path token when grouping is enabled, ascending
\* by path token alone when it is disabled; the three lines <b.h>, "a.h",
\* <a.h> become <a.h>, <b.h>, "a.h".
C3_SortedRun ==
  (last.op = "sort" /\ last.force /\ Cardinality(RunIndices(last.before)) >= 2)
    => /\ SameBag(RunTexts(last.before), RunTexts(doc))
       /\ InSortOrder(RunTexts(doc), cfg.groupIncludesByType)
       /\ (last.before = SortExampleDoc /\ cfg.groupIncludesByType)
            => doc = << Chars("#include <a.h>"), Chars("#include <b.h>"),
                        Chars("#include \"a.h\"") >>

\* C4: the edit of a sort replaces exactly the lines from the first matched
\* include line of the run to the last one, in document order, with the
\* sorted statements joined by newlines; afterwards the run occupies as many
\* lines as it has statements and holds no blank line.
C4_ReplacesRunRange ==
  (last.op = "sort" /\ last.ret)
    => LET b == last.before
           run == RunIndices(b)
           sorted == SortIncludes(CollectIncludes(b), cfg.groupIncludesByType)
           texts == [i \in 1..Len(sorted) |-> sorted[i].text]
       IN  /\ doc = SubSeq(b, 1, MinOf(run) - 1) \o texts
                      \o SubSeq(b, MaxOf(run) + 1, Len(b))
           /\ \A i \in MinOf(run)..(MinOf(run) + Len(texts) - 1) :
                ~IsBlankLine(doc[i])

\* C5: sortIncludeStatements returns false and applies no edit exactly when
\* neither the force flag nor the configured auto-sort flag is set or the
\* first include run holds at most one statement; in every other case it
\* applies one edit and returns true.
C5_SortReturnsFalseExactlyWhen ==
  last.op = "sort"
    => /\ ~last.ret <=> \/ ~(last.force \/ cfg.sortIncludes)
                        \/ Cardinality(RunIndices(last.before)) <= 1
       /\ ~last.ret => (doc = last.before /\ last.edits = 0)
       /\ last.ret => last.edits = 1

\* A sort the configured flag alone enabled, of a run of several statements.
C5_Witness ==
  /\ last.op = "sort" /\ ~last.force /\ cfg.sortIncludes
  /\ Cardinality(RunIndices(last.before)) >= 2
  /\ last.ret /\ last.edits = 1

\* Whether a line, trimmed, is empty or starts with a comment marker.
SkippedLine(line) ==
  LET t == Trim(line)
  IN  \/ t = <<>>
      \/ \E mark \in {LineCommentMark, BlockCommentMark, StarMark} : StartsWith(t, mark)

\* C6: findInsertPosition returns the smallest line index whose trimmed line
\* is non-empty and starts with none of //, /* and * (the number of lines when
\* there is no such line); every line before it is blank or starts with one of
\* the markers. It returns 3 for the document "// license", " * continued",
\* "", "int main(){}" and 0 for a document whose first line is code.
C6_InsertPosition ==
  last.op = "findInsert"
    => LET lines == last.before
           code == {i \in 0..(Len(lines) - 1) : ~SkippedLine(lines[i + 1])}
       IN  /\ last.pos = IF code = {} THEN Len(lines) ELSE MinOf(code)
           /\ \A i \in 0..(last.pos - 1) : SkippedLine(lines[i + 1])
           /\ lines = LicenseDoc => last.pos = 3
           /\ lines[1] = Chars("x") => last.pos = 0

\* The license document's insert position.
C6_Witness ==
  last.op = "findInsert" /\ last.before = LicenseDoc /\ last.pos = 3

(***************************************************************************)
(* The filesystem the resolver searches, and its environment.              *)
(***************************************************************************)
\* The workspace folder, workspaceFolder.uri.fsPath.
Root == <<ProjName>>

SourceFile == <<ProjName, SrcName, ACppName>>

\* A source file that lies in the workspace folder itself.
RootSourceFile == <<ProjName, ACppName>>

BaseA == Chars("a")

AllHeaderExts == {ExtH, ExtHpp}

\* The directories findHeaderFile may probe for file, and the header files
\* it may probe in them.
ProbedDirs(file) ==
  {StrategyDirs(dirname(file))[i] : i \in 1..5}

ProbedFiles(file) ==
  {join(d, BaseA \o e) : d \in ProbedDirs(file), e \in AllHeaderExts}

Universe(file) == ProbedDirs(file) \cup ProbedFiles(file)


\* The paths S with every directory above them.
Closure(S) == UNION {AncestorsOf(p) : p \in S}

IsUnder(q, p) == Len(q) >= Len(p) /\ SubSeq(q, 1, Len(p)) = p

\* Whether every memoized answer is the disk's.
CacheAgrees(cache, d) == \A p \in DOMAIN cache : cache[p] = (p \in d)

\* Something outside the extension creates p (and the directories above it).
ExternalCreate(p) ==
  /\ nenv < MaxEnv
  /\ p \in Universe(active) \ disk
  /\ disk' = disk \cup AncestorsOf(p)
  /\ last' = [Idle EXCEPT !.op = "externalCreate", !.path = p]
  /\ prev' = Brief(last)
  /\ nenv' = nenv + 1
  /\ UNCHANGED <<doc, cfg, active, content, fsCache, wsState, nops>>
  /\ UNCHANGED <<cfgVars, fsStamp, pending>>

\* Something outside the extension deletes p (and what lies under it).
ExternalDelete(p) ==
  /\ nenv < MaxEnv
  /\ p \in (Universe(active) \cap disk) \ AncestorsOf(active)
  /\ disk' = {q \in disk : ~IsUnder(q, p)}
  /\ last' = [Idle EXCEPT !.op = "externalDelete", !.path = p]
  /\ prev' = Brief(last)
  /\ nenv' = nenv + 1
  /\ UNCHANGED <<doc, cfg, active, content, fsCache, wsState, nops>>
  /\ UNCHANGED <<cfgVars, fsStamp, pending>>

(***************************************************************************)
(* The resolver specification: findHeaderFile on enumerated filesystems,   *)
(* which the environment may change between two calls.                     *)
(***************************************************************************)
HeaderExtLists == {<<ExtH, ExtHpp>>, <<ExtHpp, ExtH>>}

InitFind ==
  /\ doc = <<<<>>>>
  /\ cfg \in {[DefaultConfig EXCEPT !.headerExtensions = h] : h \in HeaderExtLists}
  /\ active \in {SourceFile, RootSourceFile}
  /\ disk \in {Closure(S \cup {active}) : S \in SUBSET Universe(active)}
  /\ content = <<>>
  /\ fsCache = <<>>
  /\ wsState = <<>>
  /\ last = Idle
  /\ prev = Brief(Idle)
  /\ nops = 0
  /\ nenv = 0
  /\ ConfigIdle

\* HeaderFinderService.generateHeaderIncludePath(filePath, workspaceFolder):
\* findHeaderFile with the base name of the file.
FindHeaderFile ==
  /\ LET r == generateHeaderIncludePath(fsCache, disk, active, Root, cfg)
     IN  /\ fsCache' = r.cache
         /\ last' = [Idle EXCEPT !.op = "find", !.file = active,
                                 !.found = r.foundHeader,
                                 !.path = r.headerFilePath,
                                 !.inc = r.headerIncludePath,
                                 !.agreed = CacheAgrees(fsCache, disk)]
  /\ prev' = Brief(last)
  /\ UNCHANGED <<doc, cfg, active, disk, content, wsState, nops, nenv>>
  /\ UNCHANGED <<cfgVars, fsStamp, pending>>

NextFind ==
  \/ FindHeaderFile
  \/ \E p \in Universe(active) : ExternalCreate(p)
  \/ \E p \in Universe(active) : ExternalDelete(p)

SpecFind == InitFind /\ [][NextFind]_vars

(***************************************************************************)
(* The claims about the resolver (SpecFind).                               *)
(***************************************************************************)
\* The candidate directories in the order of the claim: the source's own
\* directory, the include directory beside it, its include subdirectory, the
\* include directory of its parent, the headers directory beside it.
ClaimDirs(sourceDir) ==
  LET parent == dirname(sourceDir)
  IN  << sourceDir, Append(parent, IncludeWord),
         Append(sourceDir, IncludeWord),
         Append(parent, IncludeWord),
         Append(parent, HeadersWord) >>

\* The candidates <dir>/<baseName><ext>: directory by directory, inside one
\* directory extension by extension.
Candidates(file, base, exts) ==
  LET dirs == ClaimDirs(dirname(file))
      n == Len(exts)
  IN  [ k \in 1..(5 * n) |->
          Append(dirs[((k - 1) \div n) + 1], base \o exts[((k - 1) % n) + 1]) ]

Existing(file, base, exts) ==
  {k \in 1..(5 * Len(exts)) : Candidates(file, base, exts)[k] \in disk}

\* C1: when the existence cache agrees with the disk, findHeaderFile returns
\* the first existing candidate in the order of the directories (own
\* directory, sibling include, include subdirectory, parent-level include,
\* sibling headers) and, inside one directory, of the configured header
\* extensions; so proj/src/a.h wins over proj/include/a.h for proj/src/a.cpp.
C1_FirstExistingCandidate ==
  (last.op = "find" /\ last.agreed)
    => LET c == Candidates(last.file, BaseA, cfg.headerExtensions)
           ex == Existing(last.file, BaseA, cfg.headerExtensions)
       IN  ex # {} =>
             /\ last.found
             /\ last.path = c[MinOf(ex)]
             /\ last.inc = JoinSlash(relative(Root, c[MinOf(ex)]))

\* proj/src/a.h and proj/include/a.h both exist, and proj/src/a.h is found.
C1_Witness ==
  /\ last.op = "find" /\ last.agreed /\ last.file = SourceFile
  /\ <<ProjName, SrcName, AHName>> \in disk
  /\ <<ProjName, IncludeWord, AHName>> \in disk
  /\ last.found
  /\ last.path = <<ProjName, SrcName, AHName>>
  /\ last.inc = SrcAHText

\* What findHeaderFile is to return when it finds no header.
ProposesDefault ==
  LET p == Append(dirname(last.file), BaseA \o cfg.headerExtensions[1])
  IN  /\ ~last.found
      /\ last.path = p
      /\ last.inc = JoinSlash(relative(Root, p))

\* C2 as stated: when none of the candidate directories contains
\* <baseName><ext> for any configured header extension, findHeaderFile
\* returns found = false, the file <sourceDir>/<baseName><first configured
\* header extension> and that file's path relative to the workspace root.
C2_DefaultWhenNoneExists ==
  (last.op = "find" /\ Existing(last.file, BaseA, cfg.headerExtensions) = {})
    => ProposesDefault

\* C2 as amended: the same, when moreover the existence cache agrees with
\* the disk.
C2_DefaultWhenNoneExistsAndCacheAgrees ==
  (last.op = "find" /\ last.agreed
     /\ Existing(last.file, BaseA, cfg.headerExtensions) = {})
    => ProposesDefault

\* No header exists, the extensions are .h, .hpp, and a.h beside the source
\* is proposed.
C2_Witness ==
  /\ last.op = "find" /\ last.agreed /\ last.file = SourceFile
  /\ cfg.headerExtensions = <<ExtH, ExtHpp>>
  /\ Existing(last.file, BaseA, cfg.headerExtensions) = {}
  /\ ~last.found
  /\ last.path = <<ProjName, SrcName, AHName>>
  /\ last.inc = SrcAHText

(***************************************************************************)
(* The command specification: the commands of the extension invoked from   *)
(* one editor, the user returning to it between two commands, while the    *)
(* environment changes the filesystem and the settings.                    *)
(***************************************************************************)
MaxCmds == 3       \* commands per behaviour of the command specification

OtherFile == <<ProjName, SrcName, Chars("a.txt")>>

OutsideFile == <<Chars("tmp"), ACppName>>

CmdDocs ==
  { << Chars("y") >>,
    << Chars("// c"), <<>> >>,
    << Chars("// c"), Chars("y") >>,
    << BlockCommentMark, Chars("x"), Chars("*/"), Chars("y") >>,
    << Chars("#include \"aa\""), Chars("#include \"zz\"") >>,
    << Chars("#include \"src/a.h\""), Chars("y") >> }

CmdDisks ==
  { {}, {join(dirname(SourceFile), AHName)},
    {join(dirname(SourceFile), BaseA \o ExtHpp)},
    {<<ProjName, IncludeWord, AHName>>} }

CmdHeaderExtLists == HeaderExtLists \cup {<<ExtH>>}

CmdConfigs ==
  { [DefaultConfig EXCEPT !.headerExtensions = h, !.sortIncludes = s,
                          !.insertEmptyLineAfter = e, !.includeFormat = f,
                          !.askBeforeCreating = a] :
      h \in CmdHeaderExtLists, s \in BOOLEAN, e \in BOOLEAN,
      f \in {"quotes", "brackets"}, a \in BOOLEAN }

\* The configurations a behaviour starts with.
InitConfigs ==
  { DefaultConfig,
    [DefaultConfig EXCEPT !.sortIncludes = TRUE],
    [DefaultConfig EXCEPT !.sortIncludes = TRUE, !.insertEmptyLineAfter = FALSE],
    [DefaultConfig EXCEPT !.includeFormat = "brackets"],
    [DefaultConfig EXCEPT !.askBeforeCreating = FALSE],
    [DefaultConfig EXCEPT !.headerExtensions = <<ExtHpp, ExtH>>] }

Choices == {"Create", "Cancel"}

IoOutcomes == {"ok", "writeFails"}

Init ==
  /\ \/ /\ active = SourceFile
        /\ doc \in CmdDocs
        /\ cfg \in InitConfigs
        /\ disk \in {Closure(S \cup {active}) : S \in CmdDisks}
     \/ /\ active \in {OtherFile, OutsideFile}
        /\ doc = << Chars("y") >>
        /\ cfg = DefaultConfig
        /\ disk = Closure({active})
  /\ content = <<>>
  /\ fsCache = <<>>
  /\ wsState = <<>>
  /\ last = Idle
  /\ prev = Brief(Idle)
  /\ nops = 0
  /\ nenv = 0
  /\ ConfigIdle

\* What every command does to the state with its outcome o.
Apply(name, o) ==
  /\ doc' = o.doc
  /\ disk' = o.disk
  /\ content' = o.files
  /\ fsCache' = o.cache
  /\ wsState' = o.ws
  /\ last' = [Idle EXCEPT !.op = name, !.file = active, !.before = doc,
                          !.msg = o.msg, !.edits = o.edits,
                          !.found = o.found, !.stmt = o.stmt,
                          !.created = o.created, !.target = o.target,
                          !.pos = o.pos, !.wsWas = wsState,
                          !.agreed = CacheAgrees(fsCache, disk)]
  /\ prev' = Brief(last)
  /\ nops' = nops + 1
  /\ UNCHANGED <<cfg, active, nenv>>
  /\ UNCHANGED <<cfgVars, fsStamp, pending>>

\* The command auto-header.run: addHeaderInclude(editor, false).
AddHeaderInclude ==
  /\ nops < MaxCmds
  /\ Apply("include",
           addHeaderInclude(doc, fsCache, disk, content, wsState, active,
                            Root, cfg, FALSE, "Cancel", "ok"))

\* The command auto-header.createAndInclude, with the user's answer to
\* the prompt and the filesystem's answer to the write.
CreateAndIncludeHeader(choice, io) ==
  /\ nops < MaxCmds
  /\ Apply("createAndInclude",
           addHeaderInclude(doc, fsCache, disk, content, wsState, active,
                            Root, cfg, TRUE, choice, io))

\* The command auto-header.switchHeaderSource.
SwitchHeaderSource(choice, io) ==
  /\ nops < MaxCmds
  /\ Apply("switch",
           switchHeaderSource(doc, fsCache, disk, content, wsState, active,
                              Root, cfg, choice, io))

\* The user changes one setting and the commands see the new value.
ConfigChange(c) ==
  /\ nenv < MaxEnv
  /\ c \in CmdConfigs
  /\ c # cfg
  /\ Cardinality({k \in DOMAIN c : c[k] # cfg[k]}) = 1
  /\ cfg' = c
  /\ last' = [Idle EXCEPT !.op = "configChange"]
  /\ prev' = Brief(last)
  /\ nenv' = nenv + 1
  /\ UNCHANGED <<doc, active, disk, content, fsCache, wsState, nops>>
  /\ UNCHANGED <<cfgVars, fsStamp, pending>>

Next ==
  \/ AddHeaderInclude
  \/ \E choice \in Choices, io \in IoOutcomes : CreateAndIncludeHeader(choice, io)
  \/ \E choice \in Choices, io \in IoOutcomes : SwitchHeaderSource(choice, io)
  \/ \E c \in CmdConfigs : ConfigChange(c)
  \/ \E p \in ProbedFiles(active) : ExternalCreate(p)
  \/ \E p \in ProbedFiles(active) : ExternalDelete(p)

Spec == Init /\ [][Next]_vars

(***************************************************************************)
(* The claims about the commands (Spec).                                   *)
(***************************************************************************)
BlockCommentEnd == Chars("*/")

RECURSIVE CommentBlockFrom(_, _, _)
\* The number of lines of the comment block a document starts with: line
\* comments and block comments, whatever the body lines of a block comment
\* start with.
CommentBlockFrom(lines, i, inBlock) ==
  IF i > Len(lines) THEN i - 1
  ELSE LET t == Trim(lines[i])
       IN  IF inBlock
           THEN CommentBlockFrom(lines, i + 1, ~Includes(t, BlockCommentEnd))
           ELSE IF StartsWith(t, LineCommentMark)
           THEN CommentBlockFrom(lines, i + 1, FALSE)
           ELSE IF StartsWith(t, BlockCommentMark)
           THEN CommentBlockFrom(lines, i + 1,
                  ~Includes(SubSeq(t, 3, Len(t)), BlockCommentEnd))
           ELSE i - 1

LeadingCommentBlock(lines) == CommentBlockFrom(lines, 1, FALSE)

\* C7: when the include command adds an include to a document that starts
\* with a comment block, the lines of that block are still the first lines of
\* the document, in order, and the new include is a line after them.
C7_CommentBlockPreserved ==
  (last.op = "include" /\ last.msg = "added"
     /\ LeadingCommentBlock(last.before) >= 1)
  => LET k == LeadingCommentBlock(last.before)
     IN  /\ Len(doc) > k
         /\ SubSeq(doc, 1, k) = SubSeq(last.before, 1, k)
         /\ \E j \in (k + 1)..Len(doc) : doc[j] = last.stmt

Copies(lines, statement) ==
  Cardinality({i \in 1..Len(lines) : Includes(lines[i], statement)})

\* C8: when the include command runs twice in succession and the first run
\* added the include, the second run reports it as already included, applies
\* no edit, and the document holds the include line once.
C8_SecondIncludeIsNoOp ==
  (last.op = "include" /\ prev.op = "include" /\ prev.msg = "added")
  => /\ last.msg = "already"
     /\ last.edits = 0
     /\ doc = last.before
     /\ Copies(doc, last.stmt) = 1

\* C9: when create-and-include has created a header and switch-header-source
\* runs next from the same file, the switch opens the created header.
C9_SwitchOpensCreatedHeader ==
  (last.op = "switch" /\ prev.op = "createAndInclude"
     /\ prev.created # <<>> /\ prev.file = last.file)
  => last.target = prev.created

(***************************************************************************)
(* The classification specification: isCppSourceFile and isCppHeaderFile   *)
(* on enumerated paths and extension lists.                                *)
(***************************************************************************)
ClassifyNames ==
  { Chars("a.cpp"), Chars("a.c"), Chars("a.h"), Chars("a.hpp"), Chars("A.H"),
    Chars("a.CPP"), Chars("a.h.cpp"), Chars("a.c.h"), Chars("a"),
    Chars("a.txt"), Chars(".h") }

ClassifyExtLists ==
  { <<ExtC, ExtCpp>>, <<ExtH, ExtHpp>>, <<ExtCpp>>, <<ExtH>>, <<Chars(".H")>>,
    <<ExtC, ExtH>>, <<>> }

Disjoint(a, b) ==
  \A i \in 1..Len(a) : \A j \in 1..Len(b) : a[i] # b[j]

InitClassify ==
  /\ doc = <<<<>>>>
  /\ \E s \in ClassifyExtLists, h \in ClassifyExtLists :
       cfg = [DefaultConfig EXCEPT !.supportedExtensions = s,
                                   !.headerExtensions = h]
  /\ \E n \in ClassifyNames : active = <<ProjName, n>>
  /\ disk = {}
  /\ content = <<>>
  /\ fsCache = <<>>
  /\ wsState = <<>>
  /\ last = Idle
  /\ prev = Brief(Idle)
  /\ nops = 0
  /\ nenv = 0
  /\ ConfigIdle

\* FileSystemService.isCppSourceFile(filePath).
IsCppSourceFile ==
  /\ nops < MaxOps
  /\ last' = [Idle EXCEPT !.op = "isCppSourceFile", !.file = active,
                          !.ret = isCppSourceFile(active, cfg)]
  /\ prev' = Brief(last)
  /\ nops' = nops + 1
  /\ UNCHANGED <<doc, cfg, active, disk, content, fsCache, wsState, nenv>>
  /\ UNCHANGED <<cfgVars, fsStamp, pending>>

\* FileSystemService.isCppHeaderFile(filePath).
IsCppHeaderFile ==
  /\ nops < MaxOps
  /\ last' = [Idle EXCEPT !.op = "isCppHeaderFile", !.file = active,
                          !.ret = isCppHeaderFile(active, cfg)]
  /\ prev' = Brief(last)
  /\ nops' = nops + 1
  /\ UNCHANGED <<doc, cfg, active, disk, content, fsCache, wsState, nenv>>
  /\ UNCHANGED <<cfgVars, fsStamp, pending>>

NextClassify ==
  \/ IsCppSourceFile
  \/ IsCppHeaderFile

SpecClassify == InitClassify /\ [][NextClassify]_vars

(***************************************************************************)
(* The claim about the classification (SpecClassify).                      *)
(***************************************************************************)
\* C10: when the source-extension list and the header-extension list of the
\* configuration are disjoint, a path that isCppSourceFile accepts is one
\* that isCppHeaderFile rejects, and the other way round.
C10_SourceAndHeaderExclusive ==
  Disjoint(cfg.supportedExtensions, cfg.headerExtensions)
  => /\ (last.op = "isCppSourceFile" /\ last.ret)
          => ~isCppHeaderFile(last.file, cfg)
     /\ (last.op = "isCppHeaderFile" /\ last.ret)
          => ~isCppSourceFile(last.file, cfg)

\* A file name of two extensions under disjoint lists, accepted as a source.
C10_Witness ==
  /\ Disjoint(cfg.supportedExtensions, cfg.headerExtensions)
  /\ last.op = "isCppSourceFile"
  /\ last.ret
  /\ last.file = <<ProjName, Chars("a.h.cpp")>>
  /\ cfg.headerExtensions = <<ExtH, ExtHpp>>

(***************************************************************************)
(* The configuration accessors: ConfigurationManager.getConfiguration and  *)
(* AutoHeaderExtension.getConfiguration, each with its cache.  A           *)
(* configuration object is [id, value]: id tells two objects of the same   *)
(* value apart (it is the number of the operation that built the object).  *)
(***************************************************************************)
ExtCacheWindow == 5000

\* config.get(key, default): the host's value, or the default when unset.
Get(host, key, default) == IF key \in DOMAIN host THEN host[key] ELSE default

\* The object getConfiguration builds from the host's settings.
BuildConfig(host, defaults) ==
  [k \in DOMAIN defaults |-> Get(host, k, defaults[k])]

\* The defaults of AutoHeaderExtension.getConfiguration.
ExtDefaultConfig ==
  [ supportedExtensions |-> <<ExtC, ExtCpp>>,
    headerExtensions |-> <<ExtH>>,
    insertEmptyLineAfter |-> TRUE,
    includeFormat |-> "quotes",
    headerTemplate |-> HeaderTemplate,
    askBeforeCreating |-> TRUE ]

\* A variant that measures the cache window from time 0.
getConfigurationFromZero(host, cache, lastUpdate, t, id) ==
  LET cacheDuration == Get(host, "cacheDuration", DefaultCacheDuration)
  IN  IF cache # <<>> /\ t < cacheDuration
      THEN [ret |-> cache, cache |-> cache, lastUpdate |-> lastUpdate]
      ELSE LET built == <<[id |-> id, value |-> BuildConfig(host, DefaultConfig)]>>
           IN  [ret |-> built, cache |-> built, lastUpdate |-> t]

\* ConfigurationManager.getConfiguration at time t: the object returned (in
\* a one-element sequence), and the cache and the refresh time it leaves.
getConfiguration(host, cache, lastUpdate, t, id) ==
  LET cacheDuration == Get(host, "cacheDuration", DefaultCacheDuration)
  IN  IF cache # <<>> /\ t - lastUpdate < cacheDuration
      THEN [ret |-> cache, cache |-> cache, lastUpdate |-> lastUpdate]
      ELSE LET built == <<[id |-> id, value |-> BuildConfig(host, DefaultConfig)]>>
           IN  [ret |-> built, cache |-> built, lastUpdate |-> t]

\* AutoHeaderExtension.getConfiguration at time t.
extGetConfiguration(host, cache, lastUpdate, t, id) ==
  IF cache # <<>> /\ t - lastUpdate < ExtCacheWindow
  THEN [ret |-> cache, cache |-> cache, lastUpdate |-> lastUpdate]
  ELSE LET built == <<[id |-> id, value |-> BuildConfig(host, ExtDefaultConfig)]>>
       IN  [ret |-> built, cache |-> built, lastUpdate |-> t]

\* ConfigurationManager.resetCache.
resetCache(cache) == <<>>

\* A variant of the listener that keeps the cache.
onDidChangeConfigurationKeeping(cache, affects) == cache

\* The listener of onDidChangeConfiguration in AutoHeaderExtension.
onDidChangeConfiguration(cache, affects) ==
  IF affects THEN <<>> ELSE cache

\* The listener of onDidChangeConfiguration for ConfigurationManager: it
\* invalidates the cache when the notification affects the settings.
managerOnDidChangeConfiguration(cache, affects) ==
  IF affects THEN resetCache(cache) ELSE cache

(***************************************************************************)
(* The configuration specification: calls of the two accessors while the   *)
(* clock advances and the user edits the settings.                         *)
(***************************************************************************)
MaxConfigOps == 3  \* calls per behaviour of the configuration specification
MaxConfigEnv == 3  \* clock ticks and notifications per behaviour

\* The host's settings: a key that is not set is not in the record.
HostSettings ==
  { [includeFormat |-> f] : f \in {"quotes", "brackets"} }
    \cup { [includeFormat |-> f, cacheDuration |-> d] :
             f \in {"quotes", "brackets"}, d \in {0, 2} }

\* By how much Date.now() advances between two events.
TimeSteps == {1, ExtCacheWindow}

InitConfig ==
  /\ doc = <<<<>>>>
  /\ cfg = DefaultConfig
  /\ active = <<>>
  /\ disk = {}
  /\ content = <<>>
  /\ fsCache = <<>>
  /\ wsState = <<>>
  /\ last = Idle
  /\ prev = Brief(Idle)
  /\ nops = 0
  /\ nenv = 0
  /\ settings \in HostSettings
  /\ now \in {0, 1}
  /\ configCache = <<>>
  /\ configLastUpdate = 0
  /\ extConfigCache = <<>>
  /\ extConfigLastUpdate = 0
  /\ fsStamp = <<>>
  /\ pending = <<>>

\* ConfigurationManager.getConfiguration().
GetConfiguration ==
  /\ nops < MaxConfigOps
  /\ LET r == getConfiguration(settings, configCache, configLastUpdate, now,
                               nops + 1)
     IN  /\ configCache' = r.cache
         /\ configLastUpdate' = r.lastUpdate
         /\ last' = [Idle EXCEPT !.op = "getConfiguration", !.obj = r.ret,
                                 !.hadCache = configCache,
                                 !.since = configLastUpdate]
  /\ prev' = Brief(last)
  /\ nops' = nops + 1
  /\ UNCHANGED <<doc, cfg, active, disk, content, fsCache, wsState, nenv>>
  /\ UNCHANGED <<settings, now, extConfigCache, extConfigLastUpdate, fsStamp, pending>>

\* AutoHeaderExtension.getConfiguration().
ExtGetConfiguration ==
  /\ nops < MaxConfigOps
  /\ LET r == extGetConfiguration(settings, extConfigCache,
                                  extConfigLastUpdate, now, nops + 1)
     IN  /\ extConfigCache' = r.cache
         /\ extConfigLastUpdate' = r.lastUpdate
         /\ last' = [Idle EXCEPT !.op = "extGetConfiguration", !.obj = r.ret,
                                 !.hadCache = extConfigCache,
                                 !.since = extConfigLastUpdate]
  /\ prev' = Brief(last)
  /\ nops' = nops + 1
  /\ UNCHANGED <<doc, cfg, active, disk, content, fsCache, wsState, nenv>>
  /\ UNCHANGED <<settings, now, configCache, configLastUpdate, fsStamp, pending>>

\* ConfigurationManager.resetCache().
ResetCache ==
  /\ nops < MaxConfigOps
  /\ configCache' = resetCache(configCache)
  /\ last' = [Idle EXCEPT !.op = "resetCache", !.hadCache = configCache]
  /\ prev' = Brief(last)
  /\ nops' = nops + 1
  /\ UNCHANGED <<doc, cfg, active, disk, content, fsCache, wsState, nenv>>
  /\ UNCHANGED <<settings, now, configLastUpdate, extConfigCache,
                 extConfigLastUpdate, fsStamp, pending>>

\* The user saves new settings and the host notifies the listeners; when the
\* change is to another extension's settings (affects = FALSE) the settings
\* of this one are what they were.
DidChangeConfiguration(s, affects) ==
  /\ nenv < MaxConfigEnv
  /\ affects <=> s # settings
  /\ settings' = s
  /\ extConfigCache' = onDidChangeConfiguration(extConfigCache, affects)
  /\ configCache' = managerOnDidChangeConfiguration(configCache, affects)
  /\ last' = [Idle EXCEPT !.op = "didChangeConfiguration", !.ret = affects]
  /\ prev' = Brief(last)
  /\ nenv' = nenv + 1
  /\ UNCHANGED <<doc, cfg, active, disk, content, fsCache, wsState, nops>>
  /\ UNCHANGED <<now, configLastUpdate, extConfigLastUpdate, fsStamp, pending>>

\* Time passes.
Tick(dt) ==
  /\ nenv < MaxConfigEnv
  /\ now' = now + dt
  /\ last' = [Idle EXCEPT !.op = "tick"]
  /\ prev' = Brief(last)
  /\ nenv' = nenv + 1
  /\ UNCHANGED <<doc, cfg, active, disk, content, fsCache, wsState, nops>>
  /\ UNCHANGED <<settings, configCache, configLastUpdate, extConfigCache,
                 extConfigLastUpdate, fsStamp, pending>>

NextConfig ==
  \/ GetConfiguration
  \/ ExtGetConfiguration
  \/ ResetCache
  \/ \E s \in HostSettings, affects \in BOOLEAN : DidChangeConfiguration(s, affects)
  \/ \E dt \in TimeSteps : Tick(dt)

SpecConfig == InitConfig /\ [][NextConfig]_vars

(***************************************************************************)
(* The claims about the configuration accessors (SpecConfig).              *)
(***************************************************************************)
\* The values an accessor is to return for the host's settings.
HostValues(defaults) ==
  [k \in DOMAIN defaults |->
     IF k \in DOMAIN settings THEN settings[k] ELSE defaults[k]]

\* C11: ConfigurationManager.getConfiguration returns the cached object
\* itself, leaving the cache as it was, exactly when there is a cached object
\* and less than cacheDuration milliseconds have passed since the last
\* refresh; otherwise it returns a new object holding the host's values, which
\* becomes the cache, refreshed now.  After resetCache the call builds a new
\* object, and so does every call when cacheDuration is 0.
C11_CachedExactlyInsideWindow ==
  last.op = "getConfiguration"
    => LET cacheDuration == HostValues(DefaultConfig).cacheDuration
           inside == last.hadCache # <<>> /\ now - last.since < cacheDuration
       IN  /\ inside => /\ last.obj = last.hadCache
                        /\ configCache = last.hadCache
                        /\ configLastUpdate = last.since
           /\ ~inside => /\ last.obj # last.hadCache
                         /\ last.obj[1].id = nops
                         /\ last.obj[1].value = HostValues(DefaultConfig)
                         /\ configCache = last.obj
                         /\ configLastUpdate = now
           /\ prev.op = "resetCache" => last.obj[1].id = nops
           /\ cacheDuration = 0 => last.obj[1].id = nops

\* A call inside the window that returns the object of an earlier call.
C11_Witness ==
  /\ last.op = "getConfiguration"
  /\ settings = [includeFormat |-> "quotes", cacheDuration |-> 2]
  /\ last.hadCache # <<>>
  /\ now - last.since = 1
  /\ last.obj = last.hadCache
  /\ last.obj[1].id < nops

MaxFsOps == 2      \* calls per behaviour of the filesystem specification

IncludeDir == <<ProjName, IncludeWord>>

\* The paths the helper is called with.
FsDirs == {dirname(SourceFile), IncludeDir}

FsFiles == {join(dirname(SourceFile), AHName), join(IncludeDir, AHName)}

FileText == Chars("t")

\* When each entry of the cache new was memoized, the call being made at t.
Restamp(old, new, stamps, t) ==
  [q \in DOMAIN new |-> IF q \in DOMAIN old THEN stamps[q] ELSE t]

InitFs ==
  /\ doc = <<<<>>>>
  /\ cfg = DefaultConfig
  /\ active = SourceFile
  /\ disk \in {Closure(S \cup {active}) : S \in {{}, {join(IncludeDir, AHName)}}}
  /\ content = <<>>
  /\ fsCache = <<>>
  /\ wsState = <<>>
  /\ last = Idle
  /\ prev = Brief(Idle)
  /\ nops = 0
  /\ nenv = 0
  /\ settings \in { [includeFormat |-> "quotes"],
                    [includeFormat |-> "quotes", cacheDuration |-> 0] }
  /\ now = 0
  /\ configCache = <<>>
  /\ configLastUpdate = 0
  /\ extConfigCache = <<>>
  /\ extConfigLastUpdate = 0
  /\ fsStamp = <<>>
  /\ pending = <<>>

\* FileSystemService.fileExists(filePath).
FileExists(p) ==
  /\ nops < MaxFsOps
  /\ LET e == fileExists(fsCache, disk, p)
     IN  /\ fsCache' = e.cache
         /\ fsStamp' = Restamp(fsCache, e.cache, fsStamp, now)
         /\ last' = [Idle EXCEPT !.op = "fileExists", !.path = p,
                                 !.ret = e.res,
                                 !.hadCache = IF p \in DOMAIN fsCache
                                              THEN <<fsCache[p]>> ELSE <<>>,
                                 !.since = IF p \in DOMAIN fsStamp
                                           THEN fsStamp[p] ELSE now]
  /\ prev' = Brief(last)
  /\ nops' = nops + 1
  /\ UNCHANGED <<doc, cfg, active, disk, content, wsState, nenv, cfgVars, pending>>

\* FileSystemService.clearCache().
ClearCache ==
  /\ nops < MaxFsOps
  /\ fsCache' = <<>>
  /\ fsStamp' = <<>>
  /\ last' = [Idle EXCEPT !.op = "clearCache", !.hadCache = <<fsCache>>]
  /\ prev' = Brief(last)
  /\ nops' = nops + 1
  /\ UNCHANGED <<doc, cfg, active, disk, content, wsState, nenv, cfgVars, pending>>

\* FileSystemService.ensureDirectoryExists(dirPath); created tells the
\* directory that mkdirSync made.
EnsureDirectoryExists(p, io) ==
  /\ nops < MaxFsOps
  /\ LET r == ensureDirectoryExists(fsCache, disk, p, io)
     IN  /\ fsCache' = r.cache
         /\ disk' = r.disk
         /\ fsStamp' = Restamp(fsCache, r.cache, fsStamp, now)
         /\ last' = [Idle EXCEPT !.op = "ensureDirectoryExists", !.path = p,
                                 !.ret = r.ok, !.msg = io,
                                 !.hadCache = <<fsCache>>,
                                 !.found = p \in disk,
                                 !.created = IF p \in disk \/ p \notin r.disk
                                             THEN <<>> ELSE p]
  /\ prev' = Brief(last)
  /\ nops' = nops + 1
  /\ UNCHANGED <<doc, cfg, active, content, wsState, nenv, cfgVars, pending>>

\* FileSystemService.writeFile(filePath, content); found tells whether the
\* parent directory was on disk before the call.
WriteFile(p, io) ==
  /\ nops < MaxFsOps
  /\ LET r == writeFile(fsCache, disk, content, p, FileText, io)
     IN  /\ fsCache' = r.cache
         /\ disk' = r.disk
         /\ content' = r.files
         /\ fsStamp' = Restamp(fsCache, r.cache, fsStamp, now)
         /\ last' = [Idle EXCEPT !.op = "writeFile", !.path = p,
                                 !.ret = r.ok, !.msg = io,
                                 !.hadCache = <<fsCache>>,
                                 !.found = dirname(p) \in disk,
                                 !.created = IF r.ok THEN p ELSE <<>>]
  /\ prev' = Brief(last)
  /\ nops' = nops + 1
  /\ UNCHANGED <<doc, cfg, active, wsState, nenv, cfgVars, pending>>

NextFs ==
  \/ \E p \in FsDirs \cup FsFiles : FileExists(p)
  \/ ClearCache
  \/ \E p \in FsDirs, io \in {"ok", "mkdirFails"} : EnsureDirectoryExists(p, io)
  \/ \E p \in FsFiles, io \in {"ok", "mkdirFails", "writeFails", "writePartial"} :
       WriteFile(p, io)
  \/ \E p \in FsFiles \cup {IncludeDir} : ExternalCreate(p)
  \/ \E p \in FsFiles \cup {IncludeDir} : ExternalDelete(p)
  \/ \E dt \in TimeSteps : Tick(dt)

SpecFs == InitFs /\ [][NextFs]_vars

\* The settings the host serves, defaults filled in.
FsCacheDuration == HostValues(DefaultConfig).cacheDuration

\* C13: an answer of fileExists that comes from its cache is younger than
\* the configured cacheDuration, and with cacheDuration = 0 every call of
\* fileExists tells what is on the filesystem at the time of the call.
C13_FileExistsBoundedByCacheDuration ==
  last.op = "fileExists" =>
    /\ last.hadCache # <<>> => now - last.since < FsCacheDuration
    /\ FsCacheDuration = 0 => last.ret = (last.path \in disk)

\* C14: after a successful writeFile, and after an ensureDirectoryExists
\* that created a directory, the cache of fileExists is empty.
C14_CacheEmptyAfterWriteOrMkdir ==
  /\ last.op = "writeFile" /\ last.ret => fsCache = <<>>
  /\ last.op = "ensureDirectoryExists" /\ last.created # <<>> => fsCache = <<>>

C14_Witness ==
  /\ last.op \in {"writeFile", "ensureDirectoryExists"}
  /\ last.created # <<>>
  /\ last.hadCache # <<<<>>>>
  /\ fsCache = <<>>

\* The cache as it was before the last call kept every entry.
CacheKept ==
  LET old == last.hadCache[1]
  IN  \A q \in DOMAIN old : q \in DOMAIN fsCache /\ fsCache[q] = old[q]

\* Whether the last writeFile ran mkdirSync for the parent directory and
\* mkdirSync returned: fileExists answered false for the directory, from the
\* cache or else from the filesystem.
MkdirRan ==
  LET old == last.hadCache[1]
      dir == dirname(last.path)
      known == IF dir \in DOMAIN old THEN old[dir] ELSE last.found
  IN  ~known /\ last.msg # "mkdirFails"

\* C15 as stated: a writeFile that fails leaves every entry of the cache as
\* it was, also when the parent directory had to be created first.
C15_FailedWriteKeepsCache ==
  last.op = "writeFile" /\ ~last.ret => CacheKept

\* C15: a writeFile that fails leaves every entry of the cache as it was
\* unless mkdirSync ran for the parent directory and returned; in that case
\* the cache is empty.
C15_FailedWriteKeepsCacheUnlessMkdir ==
  last.op = "writeFile" /\ ~last.ret =>
    IF MkdirRan THEN fsCache = <<>> ELSE CacheKept

C15_Witness ==
  /\ last.op = "writeFile"
  /\ ~last.ret
  /\ ~MkdirRan
  /\ last.hadCache # <<<<>>>>
  /\ CacheKept
  /\ fsCache # <<>>

(***************************************************************************)
(* The single-command specification: each command run from enumerated      *)
(* editors, configurations and filesystems, with every answer of the user  *)
(* and of the filesystem.                                                  *)
(***************************************************************************)
MaxRuns == 1       \* commands per behaviour of the single-command specification

HeaderFile == join(dirname(SourceFile), BaseA \o ExtHpp)

RunDocs == { << Chars("y") >>, << Chars("#include \"src/a.h\""), Chars("y") >> }

RunConfigs ==
  { DefaultConfig,
    [DefaultConfig EXCEPT !.askBeforeCreating = FALSE],
    [DefaultConfig EXCEPT !.headerExtensions = <<ExtHpp, ExtH>>] }

\* The filesystem when the folder of the open file has been removed.
FolderGone == {<<>>, Root}

RunIoOutcomes == {"ok", "mkdirFails", "writeFails"}

InitCommand ==
  /\ \/ /\ active = SourceFile
        /\ doc \in RunDocs
        /\ cfg \in RunConfigs
        /\ disk \in {Closure(S \cup {active}) : S \in CmdDisks} \cup {FolderGone}
     \/ /\ active = HeaderFile
        /\ doc = << Chars("y") >>
        /\ cfg \in RunConfigs
        /\ disk \in {Closure({active}), Closure({active, SourceFile}), FolderGone}
     \/ /\ active \in {OtherFile, OutsideFile}
        /\ doc = << Chars("y") >>
        /\ cfg = DefaultConfig
        /\ disk = Closure({active})
  /\ content = <<>>
  /\ fsCache = <<>>
  /\ wsState = <<>>
  /\ last = Idle
  /\ prev = Brief(Idle)
  /\ nops = 0
  /\ nenv = 0
  /\ ConfigIdle

\* What a command does to the state with its outcome o, keeping what the
\* filesystem was and what the filesystem answered.
ApplyRun(name, o, io) ==
  /\ doc' = o.doc
  /\ disk' = o.disk
  /\ content' = o.files
  /\ fsCache' = o.cache
  /\ wsState' = o.ws
  /\ last' = [Idle EXCEPT !.op = name, !.file = active, !.before = doc,
                          !.msg = o.msg, !.edits = o.edits,
                          !.found = o.found, !.stmt = o.stmt,
                          !.created = o.created, !.target = o.target,
                          !.pos = o.pos, !.io = io,
                          !.diskWas = disk, !.filesWas = content]
  /\ prev' = Brief(last)
  /\ nops' = nops + 1
  /\ UNCHANGED <<cfg, active, nenv>>
  /\ UNCHANGED <<cfgVars, fsStamp, pending>>

\* The command auto-header.run.
RunInclude ==
  /\ nops < MaxRuns
  /\ ApplyRun("include",
              addHeaderInclude(doc, fsCache, disk, content, wsState, active,
                               Root, cfg, FALSE, "Cancel", "ok"), "ok")

\* The command auto-header.createAndInclude.
RunCreateAndInclude(choice, io) ==
  /\ nops < MaxRuns
  /\ ApplyRun("createAndInclude",
              addHeaderInclude(doc, fsCache, disk, content, wsState, active,
                               Root, cfg, TRUE, choice, io), io)

\* The command auto-header.switchHeaderSource.
RunSwitch(choice, io) ==
  /\ nops < MaxRuns
  /\ ApplyRun("switch",
              switchHeaderSource(doc, fsCache, disk, content, wsState, active,
                                 Root, cfg, choice, io), io)

NextCommand ==
  \/ RunInclude
  \/ \E choice \in Choices, io \in RunIoOutcomes : RunCreateAndInclude(choice, io)
  \/ \E choice \in Choices, io \in RunIoOutcomes : RunSwitch(choice, io)

SpecCommand == InitCommand /\ [][NextCommand]_vars

\* C16: in create-and-include, a header whose directory or file could not
\* be written leaves the document without any edit, and an include line
\* for a header that was not found is inserted only with the created header
\* on disk.
C16_NoEditWhenCreationFails ==
  last.op = "createAndInclude" =>
    /\ last.msg = "createFailed" => doc = last.before /\ last.edits = 0
    /\ last.edits > 0 /\ ~last.found =>
         /\ last.created \in disk
         /\ last.created \in DOMAIN content

C16_Witness ==
  /\ last.op = "createAndInclude"
  /\ last.msg = "createFailed"
  /\ last.io = "mkdirFails"
  /\ doc = last.before

\* The outcomes in which a command gives up.
AbortedOutcomes == {"notSource", "neither", "noWorkspace", "notFound", "declined"}

\* C17: a command that gives up because the file is neither source nor
\* header, lies outside the workspace, has no header while none is to be
\* created, or because the prompt was not answered with Create, writes no
\* file, creates no directory and edits nothing.
C17_AbortedChangesNothing ==
  last.op \in {"include", "createAndInclude", "switch"}
    /\ last.msg \in AbortedOutcomes =>
       /\ disk = last.diskWas
       /\ content = last.filesWas
       /\ doc = last.before
       /\ last.edits = 0

C17_Witness ==
  /\ last.op = "createAndInclude"
  /\ last.msg = "declined"
  /\ last.diskWas = FolderGone
  /\ disk = last.diskWas
  /\ doc = last.before

\* C19: the source file that switch-header-source creates for a header holds
\* one include line naming the header the command was run from, then a blank
\* line.
C19_CreatedSourceIncludesItsHeader ==
  last.op = "switch" /\ last.msg = "created"
    /\ isCppHeaderFile(last.file, cfg) =>
       content[last.created]
         = Chars("#include \"") \o JoinSlash(relative(Root, last.file))
             \o Chars("\"\n\n")

(***************************************************************************)
(* A further claim about the commands among changes of the filesystem      *)
(* (Spec).                                                                 *)
(***************************************************************************)
\* C18: when switch-header-source opens the path that the corresponding-file
\* cache held for the active file, that path exists on disk at the time of
\* the call; a cached path that has been deleted is never returned.
C18_CachedCounterpartStillExists ==
  last.op = "switch" /\ last.msg = "opened"
    /\ last.file \in DOMAIN last.wsWas
    /\ last.target = last.wsWas[last.file] =>
       last.target \in disk

(***************************************************************************)
(* A further claim about the include-block editor (SpecText): the command  *)
(* auto-header.sortIncludes is sortIncludeStatements with the force flag;  *)
(* it shows 'Include statements have been sorted' when that returns true   *)
(* and 'No include statements to sort' when it returns false.              *)
(***************************************************************************)
\* C20 as stated: the sort command reports 'sorted' only when the text of
\* the document after the command differs from the text before it.
C20_SortedOnlyWhenTextChanged ==
  last.op = "sort" /\ last.force /\ last.ret => doc # last.before

\* C20: the sort command reports 'sorted' exactly when the first include run
\* holds two or more statements, which it then rewrites with one edit, also
\* when the rewritten text equals the text before; otherwise it reports that
\* there is nothing to sort and leaves the document alone.
C20_SortedExactlyWhenRunRewritten ==
  last.op = "sort" /\ last.force =>
    /\ last.ret <=> Cardinality(RunIndices(last.before)) >= 2
    /\ last.ret => last.edits = 1
    /\ ~last.ret => doc = last.before /\ last.edits = 0

\* A forced sort of a run that was sorted already: reported, text unchanged.
C20_Witness ==
  /\ last.op = "sort" /\ last.force
  /\ Cardinality(RunIndices(last.before)) >= 2
  /\ last.ret
  /\ doc = last.before

(***************************************************************************)
(* The counterpart specification: findHeaderFile and findCorrespondingFile *)
(* called from sources and headers of a nested project, on filesystems     *)
(* that only the calls themselves read.                                    *)
(***************************************************************************)
InitPair ==
  LET lib == <<ProjName, Chars("lib")>>
      src == join(lib, SrcName)
      inc == join(lib, IncludeWord)
      sub == Chars("sub")
      around == { join(src, ACppName), join(src, AHName), join(inc, AHName),
                  join(join(src, IncludeWord), AHName),
                  join(<<ProjName, IncludeWord>>, AHName),
                  join(join(lib, HeadersWord), AHName) }
      nested == { join(join(inc, sub), Chars("a.c")),
                  join(join(inc, sub), ACppName),
                  join(join(src, sub), ACppName),
                  join(join(inc, SrcName), ACppName) }
  IN  /\ doc = <<<<>>>>
      /\ cfg \in { DefaultConfig,
                   [DefaultConfig EXCEPT !.supportedExtensions = <<ExtCpp, ExtC>>] }
      /\ \/ /\ active \in around
            /\ disk \in {Closure(S \cup {active}) : S \in SUBSET around}
         \/ /\ active = join(join(inc, sub), AHName)
            /\ disk \in {Closure(S \cup {active}) : S \in SUBSET nested}
      /\ content = <<>>
      /\ fsCache = <<>>
      /\ wsState = <<>>
      /\ last = Idle
      /\ prev = Brief(Idle)
      /\ nops = 0
      /\ nenv = 0
      /\ ConfigIdle

\* HeaderFinderService.findCorrespondingFile(filePath, workspaceFolder,
\* context) for the open file.
FindCorrespondingFile ==
  /\ LET r == findCorrespondingFile(fsCache, disk, wsState, active, Root, cfg)
     IN  /\ fsCache' = r.cache
         /\ wsState' = r.ws
         /\ last' = [Idle EXCEPT !.op = "corresponding", !.file = active,
                                 !.found = r.path # <<>>, !.path = r.path,
                                 !.wsWas = wsState,
                                 !.agreed = CacheAgrees(fsCache, disk)]
  /\ prev' = Brief(last)
  /\ UNCHANGED <<doc, cfg, active, disk, content, nops, nenv>>
  /\ UNCHANGED <<cfgVars, fsStamp, pending>>

NextPair ==
  \/ isCppSourceFile(active, cfg) /\ FindHeaderFile
  \/ FindCorrespondingFile

SpecPair == InitPair /\ [][NextPair]_vars

\* The include directory adjacent to the parent of the directory of file.
UpperIncludeDir(file) == join(dirname(dirname(dirname(file))), IncludeWord)

\* The header files of the base name a that are on disk.
HeadersOnDisk ==
  {p \in disk : Len(p) >= 1 /\ p[Len(p)] \in {BaseA \o e : e \in AllHeaderExts}}

\* C21: when the only header of the source's base name lies in the include
\* directory adjacent to the parent of the source directory, findHeaderFile
\* finds it (its fourth strategy probes that directory, which its second
\* does not).
C21_FindsHeaderBesideParent ==
  last.op = "find" /\ HeadersOnDisk = {join(UpperIncludeDir(last.file), AHName)}
    => last.found /\ last.path = join(UpperIncludeDir(last.file), AHName)

(***************************************************************************)
(* Further claims about the include-block editor (SpecText).               *)
(***************************************************************************)
\* C22: every statement that a sort collects into the include run carries
\* the angle-bracket flag exactly when its path is opened by <, whatever
\* whitespace the line holds between #, include and the path.
C22_AngleFlagMatchesBracket ==
  last.op = "sort" /\ (last.force \/ cfg.sortIncludes) =>
    LET stmts == CollectIncludes(last.before)
    IN  \A k \in 1..Len(stmts) :
          stmts[k].isSystemInclude = IsAngle(stmts[k].text)

(***************************************************************************)
(* Further claims about the counterpart search (SpecPair).                 *)
(***************************************************************************)
\* The directories in which a source file is looked for, for a header in
\* fileDir: its own directory, the directory with the first include segment
\* replaced by src if there is one, the src directory beside it.
SourceDirs(fileDir) ==
  LET m == {i \in 1..Len(fileDir) : fileDir[i] = IncludeWord}
  IN  <<fileDir>>
        \o (IF m = {} THEN <<>> ELSE <<[fileDir EXCEPT ![MinOf(m)] = SrcName]>>)
        \o <<join(dirname(fileDir), SrcName)>>

\* The source files a header may map to, in the order of the search.
SourceCandidates(file, exts) ==
  LET dirs == SourceDirs(dirname(file))
      n == Len(exts)
  IN  [ k \in 1..(Len(dirs) * n) |->
          join(dirs[((k - 1) \div n) + 1], BaseA \o exts[((k - 1) % n) + 1]) ]

MaxCalls == 2      \* invocations per behaviour of the invocation specification

\* The callback is called: addHeaderInclude(editor, true) up to the prompt
\* of createHeaderFile, or to its end when it does not ask.
InvokeCreateAndInclude(io) ==
  /\ nops < MaxCalls
  /\ LET g == generateHeaderIncludePath(fsCache, disk, active, Root, cfg)
         newHeaderPath ==
           join(dirname(active),
                g.baseNameWithoutExt \o cfg.headerExtensions[1])
         asks == /\ isCppSourceFile(active, cfg)
                 /\ InWorkspace(active, Root)
                 /\ ~g.foundHeader
                 /\ cfg.askBeforeCreating
     IN  IF asks
         THEN /\ fsCache' = g.cache
              /\ pending' = ((nops + 1) :> [ path |-> newHeaderPath,
                                              base |-> g.baseNameWithoutExt ])
                              @@ pending
              /\ last' = [Idle EXCEPT !.op = "createAndInclude",
                                      !.file = active, !.before = doc,
                                      !.msg = "prompt", !.io = io,
                                      !.diskWas = disk, !.filesWas = content]
              /\ prev' = Brief(last)
              /\ nops' = nops + 1
              /\ UNCHANGED <<doc, disk, content, wsState>>
              /\ UNCHANGED <<cfg, active, nenv, cfgVars, fsStamp>>
         ELSE ApplyRun("createAndInclude",
                       addHeaderInclude(doc, fsCache, disk, content, wsState,
                                        active, Root, cfg, TRUE, "Create", io),
                       io)

\* The user answers the prompt of invocation i: the rest of createHeaderFile
\* and of addHeaderInclude.
AnswerPrompt(i, choice, io) ==
  /\ i \in DOMAIN pending
  /\ LET c == createHeaderFile(fsCache, disk, content, pending[i].path,
                               pending[i].base, cfg, choice, io)
         Finish(o) ==
           /\ doc' = o.doc
           /\ disk' = o.disk
           /\ content' = o.files
           /\ fsCache' = o.cache
           /\ wsState' = o.ws
           /\ last' = [Idle EXCEPT !.op = "createAndInclude", !.file = active,
                                   !.before = doc, !.msg = o.msg,
                                   !.edits = o.edits, !.stmt = o.stmt,
                                   !.created = o.created, !.pos = o.pos,
                                   !.io = io, !.diskWas = disk,
                                   !.filesWas = content]
     IN  Finish(IF ~c.ok
                THEN Outcome(doc, c.cache, c.disk, c.files, wsState, c.msg)
                ELSE InsertStatement(
                       [Outcome(doc, c.cache, c.disk, c.files, wsState,
                                "created")
                          EXCEPT !.created = pending[i].path],
                       JoinSlash(relative(Root, pending[i].path)), cfg))
  /\ pending' = [j \in DOMAIN pending \ {i} |-> pending[j]]
  /\ prev' = Brief(last)
  /\ UNCHANGED <<cfg, active, nops, nenv, cfgVars, fsStamp>>

NextSteps ==
  \/ \E io \in RunIoOutcomes : InvokeCreateAndInclude(io)
  \/ \E i \in 1..MaxCalls, choice \in Choices, io \in RunIoOutcomes : AnswerPrompt(i, choice, io)
  \/ \E p \in ProbedFiles(active) : ExternalCreate(p)

SpecSteps == InitCommand /\ [][NextSteps]_vars

\* C24: invocations of the commands never interleave: while one is
\* suspended, no other has started, so no two have both passed the
\* header-not-found check before either has written its file.
C24_InvocationsNeverInterleave == Cardinality(DOMAIN pending) <= 1

NonBlankLines(lines) == {lines[i] : i \in {j \in 1..Len(lines) : ~IsBlankLine(lines[j])}}

\* C27: a sort never loses or duplicates text: the non-blank lines after
\* sortIncludeStatements are those before it, each as often as before, and
\* the lines before the run's first include and after its last include are
\* unchanged and in the same order.
C27_SortKeepsText ==
  last.op = "sort" =>
    LET b == last.before
        run == RunIndices(b)
    IN  /\ \A x \in NonBlankLines(b) \cup NonBlankLines(doc) :
             Count(doc, x) = Count(b, x)
        /\ run # {} =>
             LET lead == MinOf(run) - 1
                 rest == Len(b) - MaxOf(run)
             IN  /\ Len(doc) >= lead + rest
                 /\ SubSeq(doc, 1, lead) = SubSeq(b, 1, lead)
                 /\ SubSeq(doc, Len(doc) - rest + 1, Len(doc))
                      = SubSeq(b, MaxOf(run) + 1, Len(b))

\* C28: sorting is idempotent: a forced sort of a document that a forced
\* sort has just left yields the same text.
C28_SortIdempotent ==
  (last.op = "sort" /\ last.force)
    => sortIncludeStatements(doc, cfg, TRUE).doc = doc

(***************************************************************************)
(* A further claim about switching (SpecPair).                             *)
(***************************************************************************)
\* The source files on disk that bear the base name of file.
SourcesNamedLike(file) ==
  { p \in disk : /\ isCppSourceFile(p, cfg)
                 /\ basename(p, ToLowerCase(extname(p)))
                      = basename(file, ToLowerCase(extname(file))) }

\* C29: switching is symmetric: whenever findCorrespondingFile maps a source
\* file S to a header H, findCorrespondingFile applied to H on the same
\* filesystem returns a source file, and it returns S when S is the only
\* source file of that name.
C29_SwitchIsSymmetric ==
  (/\ last.op = "corresponding"
   /\ isCppSourceFile(last.file, cfg)
   /\ last.path # <<>>)
    => LET back == findCorrespondingFile(fsCache, disk, wsState, last.path,
                                         Root, cfg).path
       IN  /\ back # <<>>
           /\ isCppSourceFile(back, cfg)
           /\ SourcesNamedLike(last.file) = {last.file} => back = last.file

(***************************************************************************)
(* A further claim about the steps of create-and-include (SpecSteps).      *)
(***************************************************************************)
\* C30: the create path never overwrites an existing file: a file is written
\* only where no file is on disk at the moment of the write, also when the
\* file appeared from outside after its absence was memoized or while the
\* confirmation prompt was open.
C30_CreateNeverOverwrites ==
  (last.op = "createAndInclude" /\ last.created # <<>>)
    => last.created \notin last.diskWas


====
